---------------------------- MODULE Spec2Model ----------------------------
(***************************************************************************)
(* A model of BlockView (vyquocvu/blockview):                              *)
(*   - BlockTimeConverter.handleTimestampChange, the bisection that maps a *)
(*     timestamp to a block number through provider.getBlock;              *)
(*   - UnitConverter (wei / gwei / ether);                                 *)
(*   - HexConverter (hex / decimal / binary / ASCII);                      *)
(*   - TransactionDecoder, EventLogsDecoder and TransactionLogs;           *)
(*   - AddressType, the hash router of App and SearchBar;                  *)
(*   - switchNetwork of utils/web3, BlockList and the RPC endpoint         *)
(*     (updateRpcUrl, RpcUrlDialog, NetworkPicker, NetworkContext).        *)
(* Text fields are sequences of one-character strings, so that parsing and *)
(* formatting are computed, character by character, as the code does.      *)
(***************************************************************************)
EXTENDS Integers, Sequences, FiniteSets, TLC

VARIABLES
    chain,        \* the chain the provider serves: chain[n+1] is block n, or NoBlock
    blockNumber,  \* BlockTimeConverter: useState blockNumber
    timestamp,    \* BlockTimeConverter: useState timestamp
    searches      \* one record per call of handleTimestampChange, in call order:
                  \* its locals, pc (the await it is suspended at) and pending
                  \* (the block numbers whose getBlock it awaits)

VARIABLES
    wei,          \* UnitConverter: useState wei
    gwei,         \* UnitConverter: useState gwei
    ether,        \* UnitConverter: useState ether
    unitLog       \* the calls of the UnitConverter handlers since the last typed
                  \* edit: the typed edit, then the re-entry of a derived field

VARIABLES
    hex,          \* HexConverter: useState hex
    decimal,      \* HexConverter: useState decimal
    binary,       \* HexConverter: useState binary
    ascii,        \* HexConverter: useState ascii
    hexLog        \* the calls of the HexConverter handlers since the last typed
                  \* edit or Clear

btcVars == <<chain, blockNumber, timestamp, searches>>

unitVars == <<wei, gwei, ether, unitLog>>

hexVars == <<hex, decimal, binary, ascii, hexLog>>

VARIABLES
    lookups       \* one record per call of handleBlockNumberChange, in call
                  \* order: its argument and pc (the await it is suspended at)

VARIABLES
    transactionData,  \* TransactionDecoder: the transactionData prop
    abiInput,         \* TransactionDecoder: useState abiInput
    decodeError,      \* TransactionDecoder: useState decodeError
    decodedFunction,  \* TransactionDetails: useState decodedFunction
    fnCall,           \* the last call of decodeTransactionData: whether it
                      \* invoked onDecodedFunction, and decodedFunction before it
    logs,             \* EventLogsDecoder: the logs prop
    logAbiInput,      \* EventLogsDecoder: useState abiInput
    logDecodeError,   \* EventLogsDecoder: useState decodeError
    decodedLogs,      \* TransactionDetails: useState decodedLogs
    logCall           \* the last call of decodeEventLogs: what parseLog did
                      \* with each log and whether onDecodedLogs was invoked

VARIABLES
    isContract,   \* AddressType: the isContract prop
    address,      \* AddressType: the address prop
    getCode,      \* the promise of provider.getCode(address)
    contractCode, \* AddressType: useState contractCode
    opcodes,      \* AddressType: useState opcodes
    readable,     \* AddressType: useState readable
    functions,    \* AddressType: useState functions
    events,       \* AddressType: useState events
    loading,      \* AddressType: useState loading
    error,        \* AddressType: useState error
    unhandled     \* a promise rejected with no handler attached

VARIABLES
    locationHash, \* window.location.hash
    hashchange,   \* a hashchange event is queued for the listener of App
    route,        \* App: useState route
    params,       \* App: useState params
    searchQuery,  \* SearchBar: useState searchQuery
    searchLog     \* the last submission of the search form: the query, the
                  \* hash before it and whether alert was called

VARIABLES
    ethereum,     \* window.ethereum is there (getProvider returns it)
    requests,     \* the requests sent to the wallet, in order
    switchCall    \* the call of switchNetwork: arguments, pc and outcome

lookupVars == <<lookups>>

decoderVars == <<transactionData, abiInput, decodeError, decodedFunction, fnCall,
                 logs, logAbiInput, logDecodeError, decodedLogs, logCall>>

introVars == <<isContract, address, getCode, contractCode, opcodes, readable,
               functions, events, loading, error, unhandled>>

routeVars == <<locationHash, hashchange, route, params, searchQuery, searchLog>>

walletVars == <<ethereum, requests, switchCall>>

VARIABLES
    blockList,    \* BlockList: mounted, its useState autoRefresh, loading, error and
                  \* blocks (loaded or not), the interval of the effect that ran
                  \* last (0 for undefined) and the fetchBlocks calls pending
    timers,       \* the ids of the intervals set and not cleared
    nextTimer,    \* the id the next setInterval returns
    lastFetch     \* the last call of fetchBlocks: what called it

VARIABLES
    custom_rpc_url, \* localStorage: the item custom_rpc_url, or Null
    rpcUrl,         \* lib/blockchain: let rpcUrl
    provider,       \* lib/blockchain: the URL that let provider was built from
    contextRpcUrl,  \* NetworkContext: useState rpcUrl
    dialog,         \* RpcUrlDialog: useState open, newRpcUrl, isSubmitting, error
    picker,         \* NetworkPicker: useState selectedNetwork, isChanging
    microtask,      \* the continuation of the handler suspended at its await
    rpcLog          \* the last change requested: its URL, what was in effect
                    \* before it and whether the handler has returned

blockListVars == <<blockList, timers, nextTimer, lastFetch>>

rpcVars == <<custom_rpc_url, rpcUrl, provider, contextRpcUrl, dialog, picker,
             microtask, rpcLog>>

\* the three converters of the helper page
toolVars == <<btcVars, unitVars, hexVars>>

\* the state of the other components
appVars == <<lookupVars, decoderVars, introVars, routeVars, walletVars>>

\* the block list and the RPC endpoint of the layout
pageVars == <<blockListVars, rpcVars>>

vars == <<toolVars, appVars, pageVars>>

-----------------------------------------------------------------------------
(* Bounds of the model. *)

\* the highest block number of a chain (provider.getBlockNumber())
MaxLatest == 3
\* block timestamps range over 1..MaxTs
MaxTs == 5
\* overlapping calls of handleTimestampChange in SpecRace
MaxEdits == 2
\* the height and the timestamps of the chains of SpecRace
RaceLatest == 2
RaceTs == 2

-----------------------------------------------------------------------------
(* Text. *)

DigitChars == <<"0", "1", "2", "3", "4", "5", "6", "7", "8", "9">>

IsDigit(c) == \E i \in 1..10 : DigitChars[i] = c

DigitVal(c) == (CHOOSE i \in 1..10 : DigitChars[i] = c) - 1

IsDigits(s) == \A i \in 1..Len(s) : IsDigit(s[i])

\* the value of a string of decimal digits
RECURSIVE DecVal(_)
DecVal(s) ==
    IF s = <<>> THEN 0
    ELSE 10 * DecVal(SubSeq(s, 1, Len(s) - 1)) + DigitVal(s[Len(s)])

\* Number.prototype.toString() of a non-negative integer
RECURSIVE NatToString(_)
NatToString(n) ==
    IF n < 10 THEN <<DigitChars[n + 1]>>
    ELSE NatToString(n \div 10) \o <<DigitChars[(n % 10) + 1]>>

\* Number(value) on the texts the model enters: "" is 0, a string of decimal
\* digits is its value, anything else over the input alphabet is NaN, which
\* is written NaN here (no text of the model denotes a negative number)
NaN == -1

StringToNumber(value) ==
    IF value = <<>> THEN 0
    ELSE IF IsDigits(value) THEN DecVal(value)
    ELSE NaN

-----------------------------------------------------------------------------
(* The chain served by the provider. *)

\* provider.getBlock resolves with null for a block the node does not have
NoBlock == [number |-> -1, timestamp |-> -1]

Block(n, t) == [number |-> n, timestamp |-> t]

\* provider.getBlock(n)
GetBlock(n) == chain[n + 1]

\* provider.getBlockNumber()
GetBlockNumber == Len(chain) - 1

BlockNumbers == 0..(Len(chain) - 1)

AllFetchable == \A n \in BlockNumbers : GetBlock(n) # NoBlock

\* timestamps do not decrease with the block number
Monotonic(c) ==
    \A i, j \in 1..Len(c) :
        (i < j /\ c[i] # NoBlock /\ c[j] # NoBlock) => c[i].timestamp <= c[j].timestamp

\* a chain given by its timestamps, 0 standing for a block the node lacks
ChainsOfHeight(latest, maxTs) == [1..(latest + 1) -> 0..maxTs]

MkChain(f) ==
    [i \in 1..Len(f) |-> IF f[i] = 0 THEN NoBlock ELSE Block(i - 1, f[i])]

Chains(maxLatest, maxTs) ==
    { c \in { MkChain(f) : f \in UNION { ChainsOfHeight(l, maxTs) : l \in 0..maxLatest } } :
        Monotonic(c) }

-----------------------------------------------------------------------------
(* handleTimestampChange, BlockTimeConverter.tsx 29-71.  A search record   *)
(* holds the locals of one call and pc, the await it is suspended at.      *)

\* lines 30-34: the call up to its first await
NewSearch(value) ==
    [value |-> value, ts |-> StringToNumber(value),
     pc |-> "getBlockNumber", latestNumber |-> -1,
     low |-> 0, high |-> -1, found |-> -1,
     pending |-> {}, fetched |-> <<>>, finalFetched |-> <<>>,
     failed |-> FALSE, thrown |-> FALSE]

\* lines 68-70: the else branch, no fetch at all
InvalidSearch(value) ==
    [NewSearch(value) EXCEPT !.pc = "done", !.pending = {}]

\* line 32
ValidTimestamp(value) == StringToNumber(value) # NaN /\ value # <<>>

\* line 39
Mid(s) == (s.low + s.high) \div 2

\* lines 38-40 and 54-55: where the call suspends next, from the loop test on
Continue(s) ==
    IF s.found = -1 /\ s.low <= s.high
    THEN [s EXCEPT !.pc = "loop", !.pending = {Mid(s)}]
    ELSE IF s.found = -1 /\ s.high >= 0
    THEN [s EXCEPT !.pc = "final", !.pending = {s.high}]
    ELSE [s EXCEPT !.pc = "done", !.pending = {}]

\* Start with the last block left out of the range (high = latestNumber - 1)
StartHighExclusive(s, latest) ==
    Continue([s EXCEPT !.latestNumber = latest, !.low = 0, !.high = latest - 1,
                       !.found = -1, !.pending = {}])

\* Start with block 0 left out of the range (low = 1)
StartLowOne(s, latest) ==
    Continue([s EXCEPT !.latestNumber = latest, !.low = 1, !.high = latest,
                       !.found = -1, !.pending = {}])

\* lines 34-37: getBlockNumber has resolved with latest
Start(s, latest) ==
    Continue([s EXCEPT !.latestNumber = latest, !.low = 0, !.high = latest,
                       !.found = -1, !.pending = {}])

\* LoopBody without the early exit: an equal timestamp moves low up
LoopBodyNoEarlyExit(s, b) ==
    IF b = NoBlock THEN [s EXCEPT !.high = Mid(s) - 1]
    ELSE IF b.timestamp <= s.ts THEN [s EXCEPT !.low = Mid(s) + 1]
    ELSE [s EXCEPT !.high = Mid(s) - 1]

\* LoopBody with high = mid in place of high = mid - 1
LoopBodyHighMid(s, b) ==
    IF b = NoBlock THEN [s EXCEPT !.high = Mid(s)]
    ELSE IF b.timestamp = s.ts THEN [s EXCEPT !.found = b.number]
    ELSE IF b.timestamp < s.ts THEN [s EXCEPT !.low = Mid(s) + 1]
    ELSE [s EXCEPT !.high = Mid(s)]

\* lines 40-52: getBlock(mid) has resolved with b
LoopBody(s, b) ==
    IF b = NoBlock THEN [s EXCEPT !.high = Mid(s) - 1]
    ELSE IF b.timestamp = s.ts THEN [s EXCEPT !.found = b.number]
    ELSE IF b.timestamp < s.ts THEN [s EXCEPT !.low = Mid(s) + 1]
    ELSE [s EXCEPT !.high = Mid(s) - 1]

LoopStep(s, b) ==
    Continue(LoopBody([s EXCEPT !.fetched = Append(@, Mid(s)), !.pending = {}], b))

\* FinalBody that never takes the block at high
FinalBodySkipped(s, b) == s

\* lines 55-59: getBlock(high) has resolved with b
FinalBody(s, b) ==
    IF b # NoBlock /\ b.timestamp <= s.ts THEN [s EXCEPT !.found = b.number] ELSE s

FinalStep(s, b) ==
    [FinalBody([s EXCEPT !.finalFetched = Append(@, s.high)], b)
        EXCEPT !.pc = "done", !.pending = {}]

\* lines 65-67: an awaited call rejected; the catch block swallows the error,
\* so the promise of handleTimestampChange itself never rejects (thrown)
Rejected(s) == [s EXCEPT !.pc = "done", !.pending = {}, !.failed = TRUE]

\* lines 60-67: what a settled call writes into the block-number field
ResultText(s) ==
    IF ~s.failed /\ s.found # -1 THEN NatToString(s.found) ELSE <<>>

\* the field after search s took a step
Written(s) == IF s.pc = "done" THEN ResultText(s) ELSE blockNumber

-----------------------------------------------------------------------------
(* Actions of the block/time converter. *)

\* onChange of the timestamp input
EditTimestamp(value) ==
    /\ timestamp' = value
    /\ IF ValidTimestamp(value)
       THEN /\ searches' = Append(searches, NewSearch(value))
            /\ UNCHANGED blockNumber
       ELSE /\ searches' = Append(searches, InvalidSearch(value))
            /\ blockNumber' = <<>>
    /\ UNCHANGED <<chain, unitVars, hexVars, appVars, pageVars>>

ResolveGetBlockNumber(i) ==
    /\ searches[i].pc = "getBlockNumber"
    /\ LET s == Start(searches[i], GetBlockNumber)
       IN  /\ searches' = [searches EXCEPT ![i] = s]
           /\ blockNumber' = Written(s)
    /\ UNCHANGED <<chain, timestamp, unitVars, hexVars, appVars, pageVars>>

ResolveLoopGetBlock(i) ==
    /\ searches[i].pc = "loop"
    /\ \E n \in searches[i].pending :
          LET s == LoopStep(searches[i], GetBlock(n))
          IN  /\ searches' = [searches EXCEPT ![i] = s]
              /\ blockNumber' = Written(s)
    /\ UNCHANGED <<chain, timestamp, unitVars, hexVars, appVars, pageVars>>

ResolveFinalGetBlock(i) ==
    /\ searches[i].pc = "final"
    /\ \E n \in searches[i].pending :
          LET s == FinalStep(searches[i], GetBlock(n))
          IN  /\ searches' = [searches EXCEPT ![i] = s]
              /\ blockNumber' = Written(s)
    /\ UNCHANGED <<chain, timestamp, unitVars, hexVars, appVars, pageVars>>

\* the provider call a search awaits rejects (transport failure)
RejectFetch(i) ==
    /\ searches[i].pc # "done"
    /\ LET s == Rejected(searches[i])
       IN  /\ searches' = [searches EXCEPT ![i] = s]
           /\ blockNumber' = Written(s)
    /\ UNCHANGED <<chain, timestamp, unitVars, hexVars, appVars, pageVars>>

\* the texts typed into the timestamp field
TimestampInputs ==
    { NatToString(t) : t \in 0..(MaxTs + 1) } \cup { <<>>, <<"z">> }

InitBtc ==
    /\ blockNumber = <<>>
    /\ timestamp = <<>>
    /\ searches = <<>>

\* UnitConverter.tsx 7-9
InitUnit ==
    /\ wei = <<>>
    /\ gwei = <<>>
    /\ ether = <<>>
    /\ unitLog = <<>>

\* HexConverter.tsx 7-10
InitHex ==
    /\ hex = <<>>
    /\ decimal = <<>>
    /\ binary = <<>>
    /\ ascii = <<>>
    /\ hexLog = <<>>

\* BlockTimeConverter.tsx 10: no call of handleBlockNumberChange yet
InitLookup == lookups = <<>>

\* null, for decodeError and for the error state of AddressType
Null == "null"

\* the empty text "" as calldata
NoData == [selector |-> <<>>, words |-> -1]

\* the empty ABI text
NoAbi == [kind |-> "empty", items |-> <<>>]

\* decodedFunction null, TransactionDetails.tsx 241
NoFunction == [name |-> Null, params |-> 0]

\* TransactionDecoder.tsx 29-30, 108-109 and TransactionDetails.tsx 241-242,
\* with no transaction loaded
InitDecoder ==
    /\ transactionData = NoData
    /\ abiInput = NoAbi
    /\ decodeError = Null
    /\ decodedFunction = NoFunction
    /\ fnCall = [called |-> FALSE, abi |-> NoAbi, invoked |-> FALSE, previous |-> NoFunction]
    /\ logs = <<>>
    /\ logAbiInput = NoAbi
    /\ logDecodeError = Null
    /\ decodedLogs = <<>>
    /\ logCall = [called |-> FALSE, abi |-> NoAbi, invoked |-> FALSE, parsed |-> <<>>]

\* part_004 23-38, the component of an address that is no contract
InitIntro ==
    /\ isContract = FALSE
    /\ address = ""
    /\ getCode = "none"
    /\ contractCode = <<>>
    /\ opcodes = <<>>
    /\ readable = <<>>
    /\ functions = <<>>
    /\ events = <<>>
    /\ loading = FALSE
    /\ error = Null
    /\ unhandled = FALSE

\* App.tsx 139-140 and SearchBar.tsx 5, before the effect of App has run
InitRoute ==
    /\ locationHash = <<>>
    /\ hashchange = FALSE
    /\ route = <<"blocks">>
    /\ params = [k \in {} |-> <<>>]
    /\ searchQuery = <<>>
    /\ searchLog = [submitted |-> FALSE, turn |-> 0, query |-> <<>>, before |-> <<>>,
                    alerted |-> FALSE]

\* switchNetwork has not been called.  A call has its arguments (config 0
\* for no networkConfig, else the chainId of the config), pc (the request it
\* awaits), the code the switch request was rejected with, how the add
\* request went, and its outcome with the class and code of the error
NoSwitchCall ==
    [pc |-> "none", chainId |-> 0, config |-> 0, switchError |-> "none", added |-> "none",
     outcome |-> "none", class |-> "none", code |-> "none"]

\* no call of switchNetwork yet
InitWallet ==
    /\ ethereum = FALSE
    /\ requests = <<>>
    /\ switchCall = NoSwitchCall

\* BlockList.tsx: the component is not mounted
NoBlockList ==
    [mounted |-> FALSE, autoRefresh |-> FALSE, loading |-> FALSE, error |-> FALSE,
     blocks |-> FALSE, interval |-> 0, pending |-> 0]

\* no block list on the page
InitBlockList ==
    /\ blockList = NoBlockList
    /\ timers = {}
    /\ nextTimer = 1
    /\ lastFetch = [cause |-> "none", turn |-> 0]

\* blockchain.ts line 5, NetworkContext.tsx line 20, RpcUrlDialog.tsx line 24
DefaultRpcUrl == <<"https", ":", "//", "rpc.viction.xyz">>

\* RpcUrlDialog.tsx 22-27
ClosedDialog(url) == [open |-> FALSE, newRpcUrl |-> url, isSubmitting |-> FALSE, error |-> Null]

\* localStorage.getItem returns null: there is no item
NoItem == <<>>

\* localStorage.getItem("custom_rpc_url") || "https://rpc.viction.xyz"
StoredOrDefault(item) == IF item = NoItem THEN DefaultRpcUrl ELSE item

\* NetworkPicker.tsx 21-22
IdlePicker == [selectedNetwork |-> "", isChanging |-> FALSE]

\* no handler is suspended at an await
NoMicrotask == [handler |-> "none", url |-> <<>>, networkId |-> ""]

\* no change of the RPC URL was requested
NoRpcChange ==
    [called |-> FALSE, handler |-> "none", url |-> <<>>, returned |-> FALSE,
     before |-> [provider |-> <<>>, custom_rpc_url |-> <<>>, contextRpcUrl |-> <<>>]]

\* lib/networks.ts: rpcUrls[0] of three of the PREDEFINED_NETWORKS
FirstRpcUrl(networkId) ==
    CASE networkId = "ethereum" -> <<"https", ":", "//", "eth-mainnet.g.alchemy.com", "/", "v2/demo">>
      [] networkId = "bnb" -> <<"https", ":", "//", "bsc-dataseed.binance.org">>
      [] networkId = "viction" -> <<"https", ":", "//", "rpc.vicscan.xyz", "/">>

\* the ids the Select of NetworkPicker offers
NetworkIds == {"ethereum", "bnb", "viction"}

\* NetworkPicker.tsx 25-34: the effect on the rpcUrl of the context
SyncPicker(p, url) ==
    IF \E id \in NetworkIds : FirstRpcUrl(id) = url
    THEN [p EXCEPT !.selectedNetwork = CHOOSE id \in NetworkIds : FirstRpcUrl(id) = url]
    ELSE p

\* the page loaded with item in localStorage: blockchain.ts 5-8,
\* NetworkContext.tsx 19-21, RpcUrlDialog.tsx 22-27, NetworkPicker.tsx 21-34
LoadPage(item) ==
    /\ custom_rpc_url = item
    /\ rpcUrl = StoredOrDefault(item)
    /\ provider = StoredOrDefault(item)
    /\ contextRpcUrl = StoredOrDefault(item)
    /\ dialog = ClosedDialog(StoredOrDefault(item))
    /\ picker = SyncPicker(IdlePicker, StoredOrDefault(item))
    /\ microtask = NoMicrotask
    /\ rpcLog = NoRpcChange

\* nothing stored, the module and the context on the default URL
InitRpc == LoadPage(NoItem)

InitPage ==
    /\ InitBlockList
    /\ InitRpc

InitApp ==
    /\ InitLookup
    /\ InitDecoder
    /\ InitIntro
    /\ InitRoute
    /\ InitWallet

\* one call of handleTimestampChange on any chain
InitSearch ==
    /\ chain \in Chains(MaxLatest, MaxTs)
    /\ InitBtc
    /\ InitUnit
    /\ InitHex
    /\ InitApp
    /\ InitPage

NextSearch ==
    \/ searches = <<>> /\ \E value \in TimestampInputs : EditTimestamp(value)
    \/ \E i \in DOMAIN searches : ResolveGetBlockNumber(i)
    \/ \E i \in DOMAIN searches : ResolveLoopGetBlock(i)
    \/ \E i \in DOMAIN searches : ResolveFinalGetBlock(i)
    \/ \E i \in DOMAIN searches : RejectFetch(i)

SpecSearch == InitSearch /\ [][NextSearch]_vars

\* the provider call a search awaits settles: it resolves or it rejects
Settle ==
    \E i \in DOMAIN searches :
        \/ ResolveGetBlockNumber(i)
        \/ ResolveLoopGetBlock(i)
        \/ ResolveFinalGetBlock(i)
        \/ RejectFetch(i)

\* SpecSearch where no awaited provider call stays pending for ever
SpecSearchFair == SpecSearch /\ WF_vars(Settle)

-----------------------------------------------------------------------------
(* Properties of one search. *)

Max(S) == CHOOSE x \in S : \A y \in S : y <= x

RECURSIVE FloorLog2(_)
FloorLog2(n) == IF n <= 1 THEN 0 ELSE 1 + FloorLog2(n \div 2)

RECURSIVE Pow2(_)
Pow2(k) == IF k = 0 THEN 1 ELSE 2 * Pow2(k - 1)

\* the blocks whose timestamp is below, at, at or below the target
Below(ts) == { n \in BlockNumbers : GetBlock(n) # NoBlock /\ GetBlock(n).timestamp < ts }

At(ts) == { n \in BlockNumbers : GetBlock(n) # NoBlock /\ GetBlock(n).timestamp = ts }

AtOrBelow(ts) == Below(ts) \cup At(ts)

\* a call that ran the search to its end with no rejected fetch
Settled(s) == s.pc = "done" /\ ValidTimestamp(s.value) /\ ~s.failed

\* the spec's example [(0,100),(1,100),(2,150),(3,200)] with 100, 120, 150, 200
\* and 50 scaled to 2, 3, 4, 5 and 1
ExampleChain == MkChain(<<2, 2, 4, 5>>)

\* C1: on a chain of fetchable blocks with non-decreasing timestamps and a
\* target that is no block's timestamp, the result is the highest block whose
\* timestamp is below the target, and there is none (an empty block-number
\* field) exactly when the target is below block 0's timestamp; on the example
\* chain target 120 gives block 1 and target 50 gives none.
C1_FloorWithoutExactMatch ==
    \A i \in DOMAIN searches :
        LET s == searches[i] IN
        (Settled(s) /\ AllFetchable /\ At(s.ts) = {}) =>
            /\ s.found = (IF Below(s.ts) = {} THEN -1 ELSE Max(Below(s.ts)))
            /\ (s.found = -1) <=> (s.ts < GetBlock(0).timestamp)
            /\ (s.found = -1) <=> (ResultText(s) = <<>>)
            /\ Len(searches) = 1 => blockNumber = ResultText(s)
            /\ (chain = ExampleChain /\ s.ts = 3) => blockNumber = <<"1">>
            /\ (chain = ExampleChain /\ s.ts = 1) => blockNumber = <<>>

C1_Witness ==
    /\ chain = ExampleChain
    /\ Len(searches) = 1
    /\ Settled(searches[1])
    /\ searches[1].ts = 3
    /\ searches[1].finalFetched = <<1>>
    /\ blockNumber = <<"1">>

\* C2: on a chain of fetchable blocks with non-decreasing timestamps where
\* some block has the target timestamp, the search stops at the first fetched
\* midpoint with that timestamp, fetches nothing after it, and returns it.
C2_StopsAtFirstExactMatch ==
    \A i \in DOMAIN searches :
        LET s == searches[i] IN
        (AllFetchable /\ ValidTimestamp(s.value) /\ ~s.failed) =>
            /\ \A k \in 1..Len(s.fetched) :
                  GetBlock(s.fetched[k]).timestamp = s.ts =>
                      /\ k = Len(s.fetched)
                      /\ s.pc = "done"
                      /\ s.found = s.fetched[k]
                      /\ s.finalFetched = <<>>
            /\ (s.pc = "done" /\ At(s.ts) # {}) =>
                  /\ s.found \in At(s.ts)
                  /\ s.fetched # <<>>
                  /\ s.fetched[Len(s.fetched)] = s.found
                  /\ s.finalFetched = <<>>
                  /\ ResultText(s) = NatToString(s.found)

C2_Witness ==
    /\ chain = ExampleChain
    /\ Len(searches) = 1
    /\ Settled(searches[1])
    /\ searches[1].ts = 4
    /\ searches[1].fetched = <<1, 2>>
    /\ blockNumber = <<"2">>

\* C3 as claimed: for every target, ties included, the result is the latest
\* block whose timestamp does not exceed the target.
C3_LatestAtOrBelow ==
    \A i \in DOMAIN searches :
        LET s == searches[i] IN
        (Settled(s) /\ AllFetchable) =>
            s.found = (IF AtOrBelow(s.ts) = {} THEN -1 ELSE Max(AtOrBelow(s.ts)))

\* C3 as amended: for every target the result is a block whose timestamp is
\* the greatest block timestamp that does not exceed the target (no result
\* exactly when the target is below block 0's timestamp); it is the latest such
\* block unless its timestamp equals the target, in which case it is the first
\* block with the target timestamp that the bisection fetches.
C3_FloorOnTimestamps ==
    \A i \in DOMAIN searches :
        LET s == searches[i] IN
        (Settled(s) /\ AllFetchable) =>
            /\ (s.found = -1) <=> (AtOrBelow(s.ts) = {})
            /\ s.found # -1 =>
                  /\ s.found \in AtOrBelow(s.ts)
                  /\ \A n \in AtOrBelow(s.ts) :
                        GetBlock(n).timestamp <= GetBlock(s.found).timestamp
                  /\ At(s.ts) = {} => s.found = Max(AtOrBelow(s.ts))
                  /\ At(s.ts) # {} => s.found = s.fetched[Len(s.fetched)]

\* three blocks share the target timestamp and the search returns the middle one
C3_Witness ==
    /\ chain = MkChain(<<2, 2, 2, 5>>)
    /\ Len(searches) = 1
    /\ Settled(searches[1])
    /\ searches[1].ts = 2
    /\ searches[1].found = 1
    /\ blockNumber = <<"1">>

\* the fetch bounds of a search, in every state
C4_Bounds ==
    \A i \in DOMAIN searches :
        LET s == searches[i] IN
        /\ Cardinality(s.pending) <= 1
        /\ s.pending # {} <=> s.pc \in {"loop", "final"}
        /\ s.pc = "loop" => Len(s.fetched) <= FloorLog2(s.latestNumber + 1)
        /\ s.pc # "getBlockNumber" /\ ValidTimestamp(s.value) /\ ~s.failed =>
              Len(s.fetched) <= FloorLog2(s.latestNumber + 1) + 1
        /\ s.pc = "final" => s.finalFetched = <<>>
        /\ Len(s.fetched) <= FloorLog2(Len(chain)) + 1
        /\ Len(s.finalFetched) <= 1
        /\ s.pc = "loop" =>
              (s.high - s.low + 1) * Pow2(Len(s.fetched)) <= s.latestNumber + 1

\* a resolved midpoint fetch either ends the loop or narrows high - low
C4_Narrows ==
    \A i \in DOMAIN searches :
        (i \in DOMAIN searches' /\ searches[i].pc = "loop" /\ searches'[i] # searches[i]) =>
            \/ searches'[i].pc # "loop"
            \/ searches'[i].high - searches'[i].low < searches[i].high - searches[i].low

\* C4: a search has at most one fetch in flight, makes at most
\* floor(log2(latest+1))+1 midpoint fetches and then at most one fetch of the
\* block at high, and high - low decreases on every iteration that stays in the
\* loop, null blocks included; when every awaited call settles, it terminates.
C4_OneAtATimeAndBounded ==
    /\ [](C4_Bounds)
    /\ [][C4_Narrows]_vars
    /\ [](searches # <<>> => <>(\A i \in DOMAIN searches : searches[i].pc = "done"))

\* a block is missing, and the loop used every fetch the bound allows
C4_Witness ==
    /\ ~AllFetchable
    /\ Len(chain) = 4
    /\ Len(searches) = 1
    /\ searches[1].pc = "done"
    /\ Len(searches[1].fetched) = 3
    /\ \E k \in 1..3 : GetBlock(searches[1].fetched[k]) = NoBlock

\* what the caller of handleTimestampChange can observe of a settled call
Observable(s) == [blockNumber |-> ResultText(s), thrown |-> s.thrown]

\* the observable outcome of a search that found no block at or before the target
NoResult == [blockNumber |-> <<>>, thrown |-> FALSE]

\* C5: a rejected provider call is propagated as a failure and never looks
\* like the valid outcome 'no block at or before the target'.
C5_FailureDistinguishable ==
    \A i \in DOMAIN searches :
        (searches[i].pc = "done" /\ searches[i].failed) =>
            /\ searches[i].thrown
            /\ Observable(searches[i]) # NoResult

-----------------------------------------------------------------------------
(* Overlapping searches: the timestamp is edited while earlier calls of    *)
(* handleTimestampChange are suspended at an await.  Nothing in the        *)
(* component cancels or numbers the calls.                                 *)

RaceChains == { c \in Chains(RaceLatest, RaceTs) : \A i \in 1..Len(c) : c[i] # NoBlock }

RaceInputs == { NatToString(t) : t \in 0..(RaceTs + 1) } \cup { <<>> }

InitRace ==
    /\ chain \in RaceChains
    /\ InitBtc
    /\ InitUnit
    /\ InitHex
    /\ InitApp
    /\ InitPage

NextRace ==
    \/ Len(searches) < MaxEdits /\ \E value \in RaceInputs : EditTimestamp(value)
    \/ \E i \in DOMAIN searches : ResolveGetBlockNumber(i)
    \/ \E i \in DOMAIN searches : ResolveLoopGetBlock(i)
    \/ \E i \in DOMAIN searches : ResolveFinalGetBlock(i)
    \/ \E i \in DOMAIN searches : RejectFetch(i)

SpecRace == InitRace /\ [][NextRace]_vars

AllSettled == \A i \in DOMAIN searches : searches[i].pc = "done"

\* C6: once overlapping searches have all settled (none of them by a rejected
\* fetch), the block-number field holds the result for the timestamp entered
\* last: an earlier search never writes after a later edit.
C6_LatestTimestampWins ==
    (/\ Len(searches) >= 2
     /\ AllSettled
     /\ \A i \in DOMAIN searches : ValidTimestamp(searches[i].value) /\ ~searches[i].failed) =>
        /\ timestamp = searches[Len(searches)].value
        /\ blockNumber = ResultText(searches[Len(searches)])

-----------------------------------------------------------------------------
(* Integer literals and fixed-point text, as BigInt(string) and ethers'    *)
(* parseUnits / formatUnits compute them.  A BigInt is its sign and its    *)
(* decimal digits: 10^18 does not fit the integers TLC computes with, and  *)
(* the conversions only move a decimal point through a digit string.       *)

\* the widest literal typed into a converter field
MaxLen == 3

\* "gwei" in ethers' unit names
GweiDecimals == 9
\* formatEther / parseEther
EtherDecimals == 18

LowerHexChars == <<"0", "1", "2", "3", "4", "5", "6", "7", "8", "9",
                   "a", "b", "c", "d", "e", "f">>

UpperHexChars == <<"0", "1", "2", "3", "4", "5", "6", "7", "8", "9",
                   "A", "B", "C", "D", "E", "F">>

\* the value of c as a digit, 16 when c is no digit of any base up to 16
RadixDigitVal(c) ==
    IF \E i \in 1..16 : LowerHexChars[i] = c
    THEN (CHOOSE i \in 1..16 : LowerHexChars[i] = c) - 1
    ELSE IF \E i \in 1..16 : UpperHexChars[i] = c
    THEN (CHOOSE i \in 1..16 : UpperHexChars[i] = c) - 1
    ELSE 16

IsRadixDigits(s, base) == \A i \in 1..Len(s) : RadixDigitVal(s[i]) < base

RECURSIVE RadixVal(_, _)
RadixVal(s, base) ==
    IF s = <<>> THEN 0
    ELSE base * RadixVal(SubSeq(s, 1, Len(s) - 1), base) + RadixDigitVal(s[Len(s)])

\* the white space of the input alphabet
WhiteSpace == {" "}

RECURSIVE TrimStart(_)
TrimStart(s) == IF s # <<>> /\ s[1] \in WhiteSpace THEN TrimStart(Tail(s)) ELSE s

RECURSIVE TrimEnd(_)
TrimEnd(s) ==
    IF s # <<>> /\ s[Len(s)] \in WhiteSpace THEN TrimEnd(SubSeq(s, 1, Len(s) - 1)) ELSE s

Trim(s) == TrimEnd(TrimStart(s))

Zeros(n) == [i \in 1..n |-> "0"]

\* leading zeros dropped, one digit kept
RECURSIVE StripLeadingZeros(_)
StripLeadingZeros(d) ==
    IF Len(d) > 1 /\ d[1] = "0" THEN StripLeadingZeros(Tail(d)) ELSE d

\* trailing zeros dropped, one digit kept
RECURSIVE StripTrailingZeros(_)
StripTrailingZeros(d) ==
    IF Len(d) > 1 /\ d[Len(d)] = "0"
    THEN StripTrailingZeros(SubSeq(d, 1, Len(d) - 1)) ELSE d

\* a thrown SyntaxError / ethers error
NoBigInt == [ok |-> FALSE, neg |-> FALSE, mag |-> <<>>]

\* the BigInt with decimal digits d (not empty) and the given sign; -0n is 0n
BigIntOfDigits(neg, d) ==
    LET m == StripLeadingZeros(d)
    IN  [ok |-> TRUE, neg |-> neg /\ m # <<"0">>, mag |-> m]

BigIntOfNat(n) == [ok |-> TRUE, neg |-> FALSE, mag |-> NatToString(n)]

\* BigInt.prototype.toString()
BigIntToString(bn) == (IF bn.neg THEN <<"-">> ELSE <<>>) \o bn.mag

\* a 0x / 0o / 0b literal t of the given base, which takes no sign
PrefixedToBigInt(t, base) ==
    LET d == SubSeq(t, 3, Len(t))
    IN  IF d # <<>> /\ IsRadixDigits(d, base) THEN BigIntOfNat(RadixVal(d, base))
        ELSE NoBigInt

\* BigInt(str): StringToBigInt of ECMAScript
StringToBigInt(str) ==
    LET t == Trim(str)
    IN  IF t = <<>> THEN BigIntOfNat(0)
        ELSE IF Len(t) >= 2 /\ t[1] = "0" /\ t[2] \in {"x", "X"} THEN PrefixedToBigInt(t, 16)
        ELSE IF Len(t) >= 2 /\ t[1] = "0" /\ t[2] \in {"o", "O"} THEN PrefixedToBigInt(t, 8)
        ELSE IF Len(t) >= 2 /\ t[1] = "0" /\ t[2] \in {"b", "B"} THEN PrefixedToBigInt(t, 2)
        ELSE IF t[1] \in {"+", "-"}
        THEN IF Len(t) >= 2 /\ IsDigits(Tail(t)) THEN BigIntOfDigits(t[1] = "-", Tail(t))
             ELSE NoBigInt
        ELSE IF IsDigits(t) THEN BigIntOfDigits(FALSE, t)
        ELSE NoBigInt

\* formatUnits that drops the fraction's leading zeros with the padding
FormatUnitsUnpadded(bn, decimals) ==
    LET index == IF Len(bn.mag) > decimals THEN Len(bn.mag) - decimals ELSE 0
        whole == IF index = 0 THEN <<"0">> ELSE SubSeq(bn.mag, 1, index)
        frac  == StripTrailingZeros(SubSeq(bn.mag, index + 1, Len(bn.mag)))
    IN  (IF bn.neg THEN <<"-">> ELSE <<>>) \o whole \o <<".">> \o frac

\* ethers.formatUnits(bn, decimals): pad to decimals + 1 digits, insert the
\* point, trim the whole part to one leading digit and the fraction to one
FormatUnits(bn, decimals) ==
    LET str == IF Len(bn.mag) <= decimals
               THEN Zeros(decimals + 1 - Len(bn.mag)) \o bn.mag ELSE bn.mag
        index == Len(str) - decimals
        whole == StripLeadingZeros(SubSeq(str, 1, index))
        frac  == StripTrailingZeros(SubSeq(str, index + 1, Len(str)))
    IN  (IF bn.neg THEN <<"-">> ELSE <<>>) \o whole \o <<".">> \o frac

\* value split by /^(-?)([0-9]*)\.?([0-9]*)$/
FixedMatch(value) ==
    LET neg  == value # <<>> /\ value[1] = "-"
        body == IF neg THEN Tail(value) ELSE value
        dots == { i \in 1..Len(body) : body[i] = "." }
        p    == IF dots = {} THEN Len(body) + 1 ELSE CHOOSE i \in dots : TRUE
    IN  [matches |-> /\ Cardinality(dots) <= 1
                     /\ \A i \in 1..Len(body) : i \in dots \/ IsDigit(body[i]),
         neg |-> neg,
         whole |-> SubSeq(body, 1, p - 1),
         frac |-> SubSeq(body, p + 1, Len(body))]

\* parseUnits that cuts the digits beyond the unit's decimals
ParseUnitsTruncating(value, decimals) ==
    LET m == FixedMatch(value)
    IN  IF ~m.matches \/ Len(m.whole) + Len(m.frac) = 0 THEN NoBigInt
        ELSE LET whole == IF m.whole = <<>> THEN <<"0">> ELSE m.whole
                 padded == IF Len(m.frac) < decimals
                           THEN m.frac \o Zeros(decimals - Len(m.frac)) ELSE m.frac
             IN  BigIntOfDigits(m.neg, whole \o SubSeq(padded, 1, decimals))

\* ethers.parseUnits(value, decimals): FixedNumber.fromString(value).value
ParseUnits(value, decimals) ==
    LET m == FixedMatch(value)
    IN  IF ~m.matches \/ Len(m.whole) + Len(m.frac) = 0 THEN NoBigInt
        ELSE LET whole == IF m.whole = <<>> THEN <<"0">> ELSE m.whole
                 padded == IF Len(m.frac) < decimals
                           THEN m.frac \o Zeros(decimals - Len(m.frac)) ELSE m.frac
                 extra == SubSeq(padded, decimals + 1, Len(padded))
             IN  IF \E i \in 1..Len(extra) : extra[i] # "0" THEN NoBigInt
                 ELSE BigIntOfDigits(m.neg, whole \o SubSeq(padded, 1, decimals))

\* value || "0"
OrZero(value) == IF value = <<>> THEN <<"0">> ELSE value

-----------------------------------------------------------------------------
(* UnitConverter.tsx: the three handlers. *)

Units == {"wei", "gwei", "ether"}

UnitField(u) == CASE u = "wei" -> wei [] u = "gwei" -> gwei [] u = "ether" -> ether

\* the BigInt a handler computes from the text of its own field
UnitParse(u, value) ==
    CASE u = "wei"   -> StringToBigInt(OrZero(value))
      [] u = "gwei"  -> ParseUnits(OrZero(value), GweiDecimals)
      [] u = "ether" -> ParseUnits(OrZero(value), EtherDecimals)

\* the text a handler sets field u to, from the BigInt
UnitFormat(u, bn) ==
    CASE u = "wei"   -> BigIntToString(bn)
      [] u = "gwei"  -> FormatUnits(bn, GweiDecimals)
      [] u = "ether" -> FormatUnits(bn, EtherDecimals)

\* field f after the handler of unit u ran on value: the edited field holds
\* value, the others the formatted amount, or "" when the parse threw
UnitDerived(u, value, f) ==
    IF f = u THEN value
    ELSE IF UnitParse(u, value).ok THEN UnitFormat(f, UnitParse(u, value))
    ELSE <<>>

\* handleWeiChange / handleGweiChange / handleEtherChange
HandleUnitChange(u, value, reentry) ==
    /\ wei' = UnitDerived(u, value, "wei")
    /\ gwei' = UnitDerived(u, value, "gwei")
    /\ ether' = UnitDerived(u, value, "ether")
    /\ unitLog' = (IF reentry THEN unitLog ELSE <<>>)
                    \o <<[unit |-> u, value |-> value,
                          accepted |-> UnitParse(u, value).ok]>>
    /\ UNCHANGED <<btcVars, hexVars, appVars, pageVars>>

\* the characters typed into the unit fields
UnitAlphabet == {"0", "1", "9", "-", "+", " ", "x", "a", "."}

Texts(alphabet, maxLen) == UNION { [1..n -> alphabet] : n \in 0..maxLen }

\* literals longer than MaxLen: more fractional digits than gwei or ether has
LongUnitInputs ==
    { <<"1", ".">> \o Zeros(GweiDecimals + 1),
      <<"0", ".">> \o Zeros(GweiDecimals) \o <<"1">>,
      <<"0", ".">> \o Zeros(GweiDecimals - 1) \o <<"1">>,
      <<"0", ".">> \o Zeros(EtherDecimals) \o <<"1">>,
      <<"0", ".">> \o Zeros(EtherDecimals - 1) \o <<"1">>,
      <<"1", ".">> \o Zeros(EtherDecimals + 1) }

UnitInputs == Texts(UnitAlphabet, MaxLen) \cup LongUnitInputs

\* onChange of a unit field with typed text
EditUnit(u, value) == HandleUnitChange(u, value, FALSE)

\* the text a field shows after an accepted edit of another field is put back
\* into that field (onChange with the field's own content)
ReEnterUnit(u) ==
    /\ Len(unitLog) = 1
    /\ unitLog[1].accepted
    /\ HandleUnitChange(u, UnitField(u), TRUE)

InitUnitSpec ==
    /\ chain = <<Block(0, 1)>>
    /\ InitBtc
    /\ InitUnit
    /\ InitHex
    /\ InitApp
    /\ InitPage

\* texts typed over the result of an earlier edit
RetypedUnitInputs == { <<>>, <<"1">>, <<"-", "1">>, <<"1", ".", "5">>, <<"0", "x", "1">>, <<"a">> }

\* every handler overwrites all three fields from its argument alone, so the
\* full set of texts is typed into the fresh component and a few over any state
NextUnit ==
    \/ unitLog = <<>> /\ \E u \in Units, value \in UnitInputs : EditUnit(u, value)
    \/ unitLog # <<>> /\ \E u \in Units, value \in RetypedUnitInputs : EditUnit(u, value)
    \/ \E u \in Units : ReEnterUnit(u)

SpecUnit == InitUnitSpec /\ [][NextUnit]_vars

-----------------------------------------------------------------------------
(* Properties of the unit converter.  The amount a text denotes is read    *)
(* off its digits by position, apart from the parsers above: digit k of an *)
(* amount is the digit of weight 10^k wei.                                 *)

Decimals(u) == CASE u = "wei" -> 0 [] u = "gwei" -> GweiDecimals [] u = "ether" -> EtherDecimals

Positions == (0 - (EtherDecimals + 2))..(EtherDecimals + MaxLen + 2)

\* the digit of weight 10^k in the unsigned decimal text body
DecimalDigitAt(body, k) ==
    LET dots == { i \in 1..Len(body) : body[i] = "." }
        p == IF dots = {} THEN Len(body) + 1 ELSE CHOOSE i \in dots : TRUE
        i == IF k >= 0 THEN p - 1 - k ELSE p - k
    IN  IF i >= 1 /\ i <= Len(body) /\ i # p THEN DigitVal(body[i]) ELSE 0

RadixOfPrefix(c) ==
    CASE c \in {"x", "X"} -> 16 [] c \in {"o", "O"} -> 8 [] c \in {"b", "B"} -> 2 [] OTHER -> 10

\* the amount, in wei, that text denotes in a unit of the given decimals
Amount(text, decimals) ==
    LET t == Trim(text)
        prefixed == Len(t) >= 3 /\ t[1] = "0" /\ RadixOfPrefix(t[2]) # 10
        signed == t # <<>> /\ t[1] \in {"+", "-"}
        body == IF prefixed THEN NatToString(RadixVal(SubSeq(t, 3, Len(t)), RadixOfPrefix(t[2])))
                ELSE IF signed THEN Tail(t) ELSE t
        digits == [k \in Positions |-> DecimalDigitAt(body, k - decimals)]
    IN  [neg |-> signed /\ t[1] = "-" /\ \E k \in Positions : digits[k] # 0,
         digits |-> digits]

\* the one text formatUnits / toString may print for an amount
IsCanonical(u, text) ==
    LET neg == text # <<>> /\ text[1] = "-"
        body == IF neg THEN Tail(text) ELSE text
        dots == { i \in 1..Len(body) : body[i] = "." }
        p == IF dots = {} THEN Len(body) + 1 ELSE CHOOSE i \in dots : TRUE
        whole == SubSeq(body, 1, p - 1)
        frac == SubSeq(body, p + 1, Len(body))
    IN  /\ \A i \in 1..Len(body) : i \in dots \/ IsDigit(body[i])
        /\ whole # <<>> /\ (whole[1] = "0" => Len(whole) = 1)
        /\ neg => \E i \in 1..Len(body) : i \notin dots /\ body[i] # "0"
        /\ IF u = "wei" THEN dots = {}
           ELSE /\ Cardinality(dots) = 1
                /\ frac # <<>> /\ Len(frac) <= Decimals(u)
                /\ (frac[Len(frac)] = "0" => Len(frac) = 1)

LastUnitCall == unitLog[Len(unitLog)]

\* the round trip is complete: an accepted typed edit of one field, then the
\* derived text of another field put back into it
UnitRoundTrip(u1, u2) ==
    /\ Len(unitLog) = 2
    /\ unitLog[1].unit = u1
    /\ unitLog[2].unit = u2

\* the text has a character outside the unit's alphabet: digits for wei,
\* digits and at most one decimal point for gwei and ether
OutsideAlphabet(u, value) ==
    \/ \E i \in 1..Len(value) : ~IsDigit(value[i]) /\ (u = "wei" \/ value[i] # ".")
    \/ Cardinality({ i \in 1..Len(value) : value[i] = "." }) > 1

\* C7 as claimed: converting an accepted literal v from u1 to u2 and the
\* output back from u2 to u1 yields the literal v again (stated here for the
\* literals over the unit's own alphabet only).
C7_RoundTripYieldsLiteral ==
    \A u1, u2 \in Units :
        (/\ UnitRoundTrip(u1, u2)
         /\ u1 # u2
         /\ unitLog[1].value # <<>>
         /\ ~OutsideAlphabet(u1, unitLog[1].value)) =>
            UnitField(u1) = unitLog[1].value

\* C7 as amended: the round trip yields the canonical literal of exactly the
\* amount v denotes (no precision is lost), which is v itself exactly when v
\* is canonical: for wei decimal digits with no leading zeros, sign "+", prefix
\* or spaces; for gwei and ether a whole part, a point and a fraction with no
\* redundant zeros.
C7_RoundTripYieldsCanonical ==
    \A u1, u2 \in Units :
        UnitRoundTrip(u1, u2) =>
            /\ unitLog[2].accepted
            /\ Amount(UnitField(u1), Decimals(u1)) = Amount(unitLog[1].value, Decimals(u1))
            /\ u1 # u2 =>
                  /\ IsCanonical(u1, UnitField(u1))
                  /\ (UnitField(u1) = unitLog[1].value) <=> IsCanonical(u1, unitLog[1].value)
            /\ u1 = u2 => UnitField(u1) = unitLog[1].value

\* ether "1" goes to wei and comes back as "1.0"
C7_Witness ==
    /\ UnitRoundTrip("ether", "wei")
    /\ unitLog[1].value = <<"1">>
    /\ wei = <<"1">> \o Zeros(EtherDecimals)
    /\ ether = <<"1", ".", "0">>

\* the edited literal has a digit below one wei
NeedsRounding(u, value) ==
    /\ FixedMatch(value).matches
    /\ \E k \in Positions : k < 0 /\ Amount(value, Decimals(u)).digits[k] # 0

\* C8: after an edit with an accepted literal the three fields denote exactly
\* the same amount, digit for digit (wei = gwei x 10^9 = ether x 10^18); a
\* literal with a digit below one wei is rejected, never rounded, and a
\* rejected edit empties the two derived fields.
C8_FieldsDenoteSameAmount ==
    unitLog # <<>> =>
        LET e == LastUnitCall IN
        /\ e.accepted =>
              /\ Amount(wei, 0) = Amount(gwei, GweiDecimals)
              /\ Amount(wei, 0) = Amount(ether, EtherDecimals)
              /\ \A k \in Positions : k < 0 => Amount(wei, 0).digits[k] = 0
        /\ NeedsRounding(e.unit, e.value) => ~e.accepted
        /\ ~e.accepted => \A f \in Units \ {e.unit} : UnitField(f) = <<>>

\* one wei typed into the ether field with all eighteen fractional digits
C8_Witness ==
    /\ Len(unitLog) = 1
    /\ unitLog[1] = [unit |-> "ether", accepted |-> TRUE,
                     value |-> <<"0", ".">> \o Zeros(EtherDecimals - 1) \o <<"1">>]
    /\ wei = <<"1">>
    /\ gwei = <<"0", ".">> \o Zeros(GweiDecimals - 1) \o <<"1">>

\* C9: an edit whose literal has a character outside the unit's alphabet is
\* rejected: the two derived fields are cleared and no converted value shows;
\* so for wei literals with a sign, a 0x prefix or surrounding white space.
C9_OutsideAlphabetRejected ==
    unitLog # <<>> =>
        LET e == LastUnitCall IN
        OutsideAlphabet(e.unit, e.value) =>
            /\ ~e.accepted
            /\ \A f \in Units \ {e.unit} : UnitField(f) = <<>>

-----------------------------------------------------------------------------
(* HexConverter.tsx: the handlers.  The values fit TLC's integers here, so *)
(* a BigInt is an integer and toString(radix) is computed by division.     *)

\* the widest literal typed into a HexConverter field
MaxHexLen == 4

\* BigInt.prototype.toString(radix)
RECURSIVE ToRadixString(_, _)
ToRadixString(n, radix) ==
    IF n < radix THEN <<LowerHexChars[n + 1]>>
    ELSE ToRadixString(n \div radix, radix) \o <<LowerHexChars[(n % radix) + 1]>>

\* the characters of the codes 32..126, String.fromCharCode on them; the
\* grave accent, which a TLA+ string cannot hold, is written "U+0060"
PrintableChars ==
    <<
      " ", "!", "\"", "#", "$", "%", "&", "'", "(", ")", "*", "+",
      ",", "-", ".", "/", "0", "1", "2", "3", "4", "5", "6", "7",
      "8", "9", ":", ";", "<", "=", ">", "?", "@", "A", "B", "C",
      "D", "E", "F", "G", "H", "I", "J", "K", "L", "M", "N", "O",
      "P", "Q", "R", "S", "T", "U", "V", "W", "X", "Y", "Z", "[",
      "\\", "]", "^", "_", "U+0060", "a", "b", "c", "d", "e", "f", "g",
      "h", "i", "j", "k", "l", "m", "n", "o", "p", "q", "r", "s",
      "t", "u", "v", "w", "x", "y", "z", "{", "|", "}", "~" >>

\* lines 42-46: the character shown for a byte
ByteChar(byte) ==
    IF byte >= 32 /\ byte <= 126 THEN PrintableChars[byte - 31] ELSE "."

\* lines 39-47: one character per two hex digits, the last of an odd-length
\* text from its single digit (substr(i, 2) then parseInt(.., 16))
RECURSIVE AsciiOf(_)
AsciiOf(cleanHex) ==
    IF cleanHex = <<>> THEN <<>>
    ELSE IF Len(cleanHex) = 1 THEN <<ByteChar(RadixVal(cleanHex, 16))>>
    ELSE <<ByteChar(RadixVal(SubSeq(cleanHex, 1, 2), 16))>>
            \o AsciiOf(SubSeq(cleanHex, 3, Len(cleanHex)))

\* line 16: value.startsWith('0x') ? value.slice(2) : value
CleanHex(value) ==
    IF Len(value) >= 2 /\ value[1] = "0" /\ value[2] = "x"
    THEN SubSeq(value, 3, Len(value)) ELSE value

Bases == {"hex", "decimal", "binary"}

Radix(b) == CASE b = "hex" -> 16 [] b = "decimal" -> 10 [] b = "binary" -> 2

\* lines 16, 62, 93: the digits a handler reads from its argument
BaseDigits(b, value) == IF b = "hex" THEN CleanHex(value) ELSE value

\* lines 17-27, 62-72, 93-103: "empty" returns early with the other fields
\* cleared, "invalid" throws into the catch block
Outcome(b, value) ==
    IF BaseDigits(b, value) = <<>> THEN "empty"
    ELSE IF IsRadixDigits(BaseDigits(b, value), Radix(b)) THEN "valid"
    ELSE "invalid"

\* the digits read as decimal whatever the field
BaseValueAsDecimal(b, value) == RadixVal(BaseDigits(b, value), 10)

\* lines 30, 74, 105: BigInt('0x' + cleanHex), BigInt(value), BigInt('0b' + value)
BaseValue(b, value) == RadixVal(BaseDigits(b, value), Radix(b))

\* hex output written without the "0x" prefix
BaseTextNoPrefix(b, n) == ToRadixString(n, Radix(b))

\* lines 30-34, 75-78, 106-109: the text a handler sets field b to
BaseText(b, n) ==
    IF b = "hex" THEN <<"0", "x">> \o ToRadixString(n, 16)
    ELSE ToRadixString(n, Radix(b))

\* field f after the handler of base b ran on value
BaseDerived(b, value, f) ==
    IF f = b THEN value
    ELSE IF Outcome(b, value) = "valid" THEN BaseText(f, BaseValue(b, value))
    ELSE <<>>

\* ASCII shown for a valid edit of any field
AsciiDerivedAnyBase(b, value) ==
    IF Outcome(b, value) = "valid" THEN AsciiOf(BaseDigits(b, value)) ELSE <<>>

\* lines 37-51, 82, 113 and the cleared cases
AsciiDerived(b, value) ==
    IF b = "hex" /\ Outcome(b, value) = "valid" THEN AsciiOf(CleanHex(value)) ELSE <<>>

BaseField(b) == CASE b = "hex" -> hex [] b = "decimal" -> decimal [] b = "binary" -> binary

\* handleHexChange / handleDecimalChange / handleBinaryChange
HandleBaseChange(b, value, reentry) ==
    /\ hex' = BaseDerived(b, value, "hex")
    /\ decimal' = BaseDerived(b, value, "decimal")
    /\ binary' = BaseDerived(b, value, "binary")
    /\ ascii' = AsciiDerived(b, value)
    /\ hexLog' = (IF reentry THEN hexLog ELSE <<>>)
                   \o <<[op |-> b, value |-> value, outcome |-> Outcome(b, value)]>>
    /\ UNCHANGED <<btcVars, unitVars, appVars, pageVars>>

\* handleClear, lines 121-126
HandleClear ==
    /\ hexLog # <<>>
    /\ hex' = <<>>
    /\ decimal' = <<>>
    /\ binary' = <<>>
    /\ ascii' = <<>>
    /\ hexLog' = <<[op |-> "clear", value |-> <<>>, outcome |-> "empty"]>>
    /\ UNCHANGED <<btcVars, unitVars, appVars, pageVars>>

\* the characters typed into the HexConverter fields
HexAlphabet == {"0", "1", "4", "a", "F", "x", "g"}

HexInputs == Texts(HexAlphabet, MaxHexLen)

\* texts typed over the result of an earlier edit
RetypedHexInputs == { <<>>, <<"1">>, <<"0", "x", "4", "1">>, <<"0", "1", "0">>, <<"g">> }

EditBase(b, value) == HandleBaseChange(b, value, FALSE)

\* the text a field shows after a valid edit of another field is put back
\* into that field (onChange with the field's own content)
ReEnterBase(b) ==
    /\ Len(hexLog) = 1
    /\ hexLog[1].outcome = "valid"
    /\ HandleBaseChange(b, BaseField(b), TRUE)

InitHexSpec ==
    /\ chain = <<Block(0, 1)>>
    /\ InitBtc
    /\ InitUnit
    /\ InitHex
    /\ InitApp
    /\ InitPage

\* every handler overwrites all four fields from its argument alone, so the
\* full set of texts is typed into the fresh component and a few over any state
NextHex ==
    \/ hexLog = <<>> /\ \E b \in Bases, value \in HexInputs : EditBase(b, value)
    \/ hexLog # <<>> /\ \E b \in Bases, value \in RetypedHexInputs : EditBase(b, value)
    \/ \E b \in Bases : ReEnterBase(b)
    \/ HandleClear

SpecHex == InitHexSpec /\ [][NextHex]_vars

-----------------------------------------------------------------------------
(* Properties of the base converter. *)

\* the round trip is complete: a valid typed edit of field b1, then the
\* derived text of field b2 put back into it
BaseRoundTrip(b1, b2) ==
    /\ Len(hexLog) = 2
    /\ hexLog[1].op = b1
    /\ hexLog[2].op = b2

\* normalize as the claim reads it: the 0x prefix and the leading zeros
\* stripped (one digit kept for zero), the same way for every base
Normalize(v) == StripLeadingZeros(CleanHex(v))

LowerCase(c) ==
    IF \E i \in 11..16 : UpperHexChars[i] = c
    THEN LowerHexChars[CHOOSE i \in 11..16 : UpperHexChars[i] = c] ELSE c

\* the text the converter prints for the number v denotes in base b: lower
\* case, no leading zeros, and "0x" in front of hex
Canonical(b, v) ==
    LET d == StripLeadingZeros(BaseDigits(b, v))
        lower == [i \in 1..Len(d) |-> LowerCase(d[i])]
    IN  IF b = "hex" THEN <<"0", "x">> \o lower ELSE lower

\* C10 as claimed: converting a valid literal v of base b1 to b2 and the
\* output back to b1 yields normalize(v), v with its 0x prefix and leading
\* zeros stripped.
C10_RoundTripYieldsNormalized ==
    \A b1, b2 \in Bases :
        (BaseRoundTrip(b1, b2) /\ b1 # b2) => BaseField(b1) = Normalize(hexLog[1].value)

\* C10 as amended: for b1 # b2 the round trip yields the canonical text of v
\* in base b1: v's digits without leading zeros (one 0 for zero), in lower
\* case, and for hex with the prefix 0x put in front whether or not v had
\* one; for b1 = b2 the field keeps v as typed.
C10_RoundTripYieldsCanonical ==
    \A b1, b2 \in Bases :
        BaseRoundTrip(b1, b2) =>
            /\ hexLog[2].outcome = "valid"
            /\ b1 # b2 => BaseField(b1) = Canonical(b1, hexLog[1].value)
            /\ b1 = b2 => BaseField(b1) = hexLog[1].value

\* hex "0F" goes to decimal "15" and comes back as "0xf"
C10_Witness ==
    /\ BaseRoundTrip("hex", "decimal")
    /\ hexLog[1].value = <<"0", "F">>
    /\ decimal = <<"1", "5">>
    /\ hex = <<"0", "x", "f">>

\* the alphabet of a base, lines 25, 70, 101
BaseAlphabet(b) ==
    CASE b = "hex" -> { LowerHexChars[i] : i \in 1..16 } \cup { UpperHexChars[i] : i \in 1..16 }
      [] b = "decimal" -> { DigitChars[i] : i \in 1..10 }
      [] b = "binary" -> {"0", "1"}

\* the text, after an optional leading 0x for hex, has a character outside
\* the alphabet of its base
OutsideBase(b, value) ==
    \E i \in 1..Len(BaseDigits(b, value)) : BaseDigits(b, value)[i] \notin BaseAlphabet(b)

\* the most recent operation on the converter
LastBaseCall == hexLog[Len(hexLog)]

\* C11: after an edit whose text has a character outside the alphabet of its
\* base every other field, ASCII included, is empty; after an edit with a
\* valid non-empty literal the hex, decimal and binary fields are literals of
\* their bases denoting one non-negative integer, the one typed; the edited
\* field keeps the text typed; after an empty edit or Clear nothing is shown.
C11_InvalidRejectedValidAgree ==
    hexLog # <<>> =>
        LET e == LastBaseCall IN
        /\ e.op \in Bases => BaseField(e.op) = e.value
        /\ (e.op \in Bases /\ OutsideBase(e.op, e.value)) =>
              /\ e.outcome = "invalid"
              /\ ascii = <<>>
              /\ \A f \in Bases \ {e.op} : BaseField(f) = <<>>
        /\ (e.op \in Bases /\ BaseDigits(e.op, e.value) # <<>> /\ ~OutsideBase(e.op, e.value)) =>
              /\ e.outcome = "valid"
              /\ \A f \in Bases :
                    /\ BaseDigits(f, BaseField(f)) # <<>>
                    /\ ~OutsideBase(f, BaseField(f))
                    /\ BaseValue(f, BaseField(f)) = BaseValue(e.op, e.value)
                    /\ BaseValue(f, BaseField(f)) >= 0
        /\ e.outcome = "empty" =>
              /\ ascii = <<>>
              /\ \A f \in Bases \ {e.op} : BaseField(f) = <<>>

\* binary "014" is typed: the 4 is no binary digit, the other fields are empty
C11_Witness ==
    /\ hexLog = <<[op |-> "binary", value |-> <<"0", "1", "4">>, outcome |-> "invalid"]>>
    /\ binary = <<"0", "1", "4">>
    /\ hex = <<>>
    /\ decimal = <<>>
    /\ ascii = <<>>

\* the bytes a hex literal denotes: two digits a byte, counted from the
\* right as BigInt('0x' + cleanHex) on line 30 reads them, so that a literal
\* of odd length has its first digit alone in the first byte
HexBytes(cleanHex) ==
    LET d == IF Len(cleanHex) % 2 = 1 THEN <<"0">> \o cleanHex ELSE cleanHex
    IN  [i \in 1..(Len(d) \div 2) |-> RadixVal(SubSeq(d, 2 * i - 1, 2 * i), 16)]

\* C12: after an edit of the hex field with a valid literal the ASCII field
\* has exactly one character per byte of the literal, in order: the byte's
\* ASCII character when the byte is in [32,126] and "." otherwise.
C12_OneCharPerByte ==
    (hexLog # <<>> /\ LastBaseCall.op = "hex" /\ LastBaseCall.outcome = "valid") =>
        LET bytes == HexBytes(CleanHex(LastBaseCall.value))
        IN  ascii = [i \in 1..Len(bytes) |-> ByteChar(bytes[i])]

\* ASCII shows only right after a hex edit with a valid non-empty literal
C13_AsciiShown ==
    hexLog # <<>> =>
        /\ ascii # <<>> => (LastBaseCall.op = "hex" /\ LastBaseCall.outcome = "valid")
        /\ LastBaseCall.op \in {"decimal", "binary", "clear"} => ascii = <<>>
        /\ LastBaseCall.outcome \in {"invalid", "empty"} => ascii = <<>>

\* what an operation writes to hex, decimal and binary is fixed by the
\* operation and its argument, whatever the ASCII field held before
C13_FieldsFromArgument ==
    LET e == LastBaseCall'
    IN  \A f \in Bases :
            BaseField(f)' = IF e.op = "clear" THEN <<>> ELSE BaseDerived(e.op, e.value, f)

\* C13: ASCII is never a conversion source: the ASCII field is non-empty only
\* if the most recent operation was a hex edit with a valid non-empty
\* literal; every decimal edit, binary edit, invalid edit and Clear leaves it
\* empty; and no operation derives hex, decimal or binary from the ASCII field.
C13_AsciiNeverSource == [](C13_AsciiShown) /\ [][C13_FieldsFromArgument]_vars

\* hex "0x41" showed ASCII "A"; the decimal field re-entered with its "65"
\* leaves hex and binary standing and ASCII empty
C13_Witness ==
    /\ Len(hexLog) = 2
    /\ hexLog[1] = [op |-> "hex", value |-> <<"0", "x", "4", "1">>, outcome |-> "valid"]
    /\ hexLog[2] = [op |-> "decimal", value |-> <<"6", "5">>, outcome |-> "valid"]
    /\ hex = <<"0", "x", "4", "1">>
    /\ ascii = <<>>

-----------------------------------------------------------------------------
(* TransactionDecoder.tsx: decodeTransactionData.  An ABI text is what     *)
(* JSON.parse makes of it; calldata is its selector bytes and the number   *)
(* of 32-byte words after them.  Interface is the one of ethers 6.         *)

\* the ABI fragments of the model: a function with n static inputs, an
\* event with i indexed and n other static inputs, an entry that
\* Fragment.from rejects
Fn(name, n) == [type |-> "function", name |-> name, indexed |-> 0, plain |-> n]

Ev(name, i, n) == [type |-> "event", name |-> name, indexed |-> i, plain |-> n]

JunkFragment == [type |-> "junk", name |-> "", indexed |-> 0, plain |-> 0]

\* FunctionFragment.selector: the first four bytes of keccak256 of
\* transfer(address,uint256) and of approve(address,uint256)
Selector(name) ==
    CASE name = "transfer" -> <<169, 5, 156, 187>>
      [] name = "approve" -> <<9, 94, 167, 179>>

\* new Interface(abiArray): the entries Fragment.from accepts, the others
\* are logged and skipped; a JSON value that is no array cannot be iterated
Interface(abi) == SelectSeq(abi.items, LAMBDA f : f.type # "junk")

\* iface.getFunction(selector): the function fragment with the selector
Matching(iface, data) ==
    { i \in 1..Len(iface) :
        /\ iface[i].type = "function"
        /\ Selector(iface[i].name) = data.selector }

\* line 46
CouldNotDecode == "Could not decode transaction data with provided ABI"

\* a call that reports no match by onDecodedFunction(null)
DecodeCallNotifyingNull(abi, data) ==
    IF abi.kind = "empty" \/ data = NoData
    THEN [error |-> Null, invoked |-> FALSE, fn |-> NoFunction]
    ELSE IF abi.kind = "notJson"
    THEN [error |-> "SyntaxError", invoked |-> FALSE, fn |-> NoFunction]
    ELSE IF abi.kind = "notArray"
    THEN [error |-> "TypeError", invoked |-> FALSE, fn |-> NoFunction]
    ELSE LET m == Matching(Interface(abi), data)
         IN  IF m = {}
             THEN [error |-> CouldNotDecode, invoked |-> TRUE, fn |-> NoFunction]
             ELSE LET f == Interface(abi)[CHOOSE i \in m : \A j \in m : i <= j]
                  IN  IF data.words < f.plain
                      THEN [error |-> "BUFFER_OVERRUN", invoked |-> FALSE, fn |-> NoFunction]
                      ELSE [error |-> Null, invoked |-> TRUE,
                            fn |-> [name |-> f.name, params |-> f.plain]]

\* lines 33-66: the decodeError the call leaves, whether it invokes
\* onDecodedFunction and with what
DecodeCall(abi, data) ==
    IF abi.kind = "empty" \/ data = NoData
    THEN [error |-> Null, invoked |-> FALSE, fn |-> NoFunction]                   \* line 35
    ELSE IF abi.kind = "notJson"
    THEN [error |-> "SyntaxError", invoked |-> FALSE, fn |-> NoFunction]          \* lines 37, 65
    ELSE IF abi.kind = "notArray"
    THEN [error |-> "TypeError", invoked |-> FALSE, fn |-> NoFunction]            \* lines 38, 65
    ELSE LET m == Matching(Interface(abi), data)
         IN  IF m = {}
             THEN [error |-> CouldNotDecode, invoked |-> FALSE, fn |-> NoFunction] \* lines 45-47
             ELSE LET f == Interface(abi)[CHOOSE i \in m : \A j \in m : i <= j]
                  IN  IF data.words < f.plain
                      THEN [error |-> "BUFFER_OVERRUN", invoked |-> FALSE, fn |-> NoFunction]
                      ELSE [error |-> Null, invoked |-> TRUE,                      \* lines 50-62
                            fn |-> [name |-> f.name, params |-> f.plain]]

\* onChange of the textarea, line 84
SetAbiInput(abi) ==
    /\ abiInput' = abi
    /\ UNCHANGED <<transactionData, decodeError, decodedFunction, fnCall>>
    /\ UNCHANGED <<logs, logAbiInput, logDecodeError, decodedLogs, logCall>>
    /\ UNCHANGED <<toolVars, lookupVars, introVars, routeVars, walletVars, pageVars>>

\* the Decode button, line 95
DecodeTransactionData ==
    LET r == DecodeCall(abiInput, transactionData)
    IN  /\ decodeError' = r.error
        /\ decodedFunction' = IF r.invoked THEN r.fn ELSE decodedFunction
        /\ fnCall' = [called |-> TRUE, abi |-> abiInput, invoked |-> r.invoked,
                      previous |-> decodedFunction]
        /\ UNCHANGED <<transactionData, abiInput>>
        /\ UNCHANGED <<logs, logAbiInput, logDecodeError, decodedLogs, logCall>>
        /\ UNCHANGED <<toolVars, lookupVars, introVars, routeVars, walletVars, pageVars>>

\* the fragments pasted into the ABI text
Fragments ==
    { Fn("transfer", 2), Fn("approve", 2), Ev("Transfer", 2, 1), Ev("Transfer", 3, 0),
      JunkFragment }

\* the longest ABI array pasted
MaxFragments == 2

\* the ABI texts: empty, no JSON, JSON that is no array, arrays of fragments
AbiTexts ==
    { NoAbi, [kind |-> "notJson", items |-> <<>>], [kind |-> "notArray", items |-> <<>>] }
      \cup { [kind |-> "array", items |-> f] : f \in Texts(Fragments, MaxFragments) }

\* the most words of arguments in the calldata
MaxWords == 2

\* the data of the transaction shown: TransactionDetails.tsx 400 renders the
\* decoder for data other than "" and "0x"
TransactionDatas ==
    { [selector |-> sel, words |-> w] :
        sel \in { Selector("transfer"), Selector("approve"), <<1, 2, 3, 4>> },
        w \in 0..MaxWords }
      \cup { [selector |-> <<169, 5>>, words |-> 0] }

\* one transaction's decoder: the dialog is opened, ABI texts are pasted and
\* Decode is pressed, any number of times
InitCall ==
    /\ chain = <<Block(0, 1)>>
    /\ InitBtc
    /\ InitUnit
    /\ InitHex
    /\ InitLookup
    /\ transactionData \in TransactionDatas
    /\ abiInput = NoAbi
    /\ decodeError = Null
    /\ decodedFunction = NoFunction
    /\ fnCall = [called |-> FALSE, abi |-> NoAbi, invoked |-> FALSE, previous |-> NoFunction]
    /\ logs = <<>>
    /\ logAbiInput = NoAbi
    /\ logDecodeError = Null
    /\ decodedLogs = <<>>
    /\ logCall = [called |-> FALSE, abi |-> NoAbi, invoked |-> FALSE, parsed |-> <<>>]
    /\ InitIntro
    /\ InitRoute
    /\ InitWallet
    /\ InitPage

\* ABI texts pasted over the one of an earlier call
RepastedAbiTexts ==
    { NoAbi, [kind |-> "notJson", items |-> <<>>], [kind |-> "notArray", items |-> <<>>],
      [kind |-> "array", items |-> <<>>],
      [kind |-> "array", items |-> <<Fn("approve", 2)>>],
      [kind |-> "array", items |-> <<Fn("transfer", 2)>>],
      [kind |-> "array", items |-> <<Ev("Transfer", 2, 1)>>],
      [kind |-> "array", items |-> <<Ev("Transfer", 3, 0), JunkFragment>>] }

\* a call depends on the ABI text and the data alone, so every text is
\* pasted before the first call and a few over the result of a call
NextCall ==
    \/ ~fnCall.called /\ \E abi \in AbiTexts : SetAbiInput(abi)
    \/ fnCall.called /\ \E abi \in RepastedAbiTexts : SetAbiInput(abi)
    \/ DecodeTransactionData

SpecCall == InitCall /\ [][NextCall]_vars

-----------------------------------------------------------------------------
(* Properties of decodeTransactionData. *)

\* the ABI text is there and is no ABI: no JSON, or JSON that is no array
Malformed(abi) == abi.kind \in {"notJson", "notArray"}

\* the ABI text is an array none of whose function fragments has the first
\* four bytes of the data as its selector
NoMatchingSelector(abi, data) ==
    /\ abi.kind = "array"
    /\ \A i \in 1..Len(abi.items) :
          abi.items[i].type = "function" => Selector(abi.items[i].name) # data.selector

\* C14: when Decode is pressed with an ABI text that is malformed, or whose
\* function fragments do not match the first 4 bytes of the transaction data,
\* decodeError is set, onDecodedFunction is not invoked and the function
\* decoded before stays as it was.  (With the ABI text empty the call returns
\* at once: no error, no callback, nothing changed.)
C14_NoMatchSurfaced ==
    fnCall.called =>
        /\ (Malformed(fnCall.abi) \/ NoMatchingSelector(fnCall.abi, transactionData)) =>
              /\ decodeError # Null
              /\ ~fnCall.invoked
              /\ decodedFunction = fnCall.previous
        /\ fnCall.abi = NoAbi =>
              /\ decodeError = Null
              /\ ~fnCall.invoked
              /\ decodedFunction = fnCall.previous

\* transfer was decoded; Decode pressed again with an ABI that has only
\* approve leaves the error and the decoded transfer
C14_Witness ==
    /\ fnCall.called
    /\ transactionData = [selector |-> Selector("transfer"), words |-> 2]
    /\ fnCall.abi = [kind |-> "array", items |-> <<Fn("approve", 2)>>]
    /\ fnCall.previous = [name |-> "transfer", params |-> 2]
    /\ decodedFunction = [name |-> "transfer", params |-> 2]
    /\ decodeError = CouldNotDecode

-----------------------------------------------------------------------------
(* TransactionDecoder.tsx: EventLogsDecoder.decodeEventLogs.  A log is its *)
(* address, topics[0] (its first four bytes, none for a log without        *)
(* topics), the number of topics after it and the number of 32-byte words  *)
(* of its data.                                                            *)

\* EventFragment.topicHash: the first four bytes of keccak256 of
\* Transfer(address,address,uint256), which ERC-20 declares with two
\* indexed parameters and ERC-721 with three
TopicHash(name) == CASE name = "Transfer" -> <<221, 242, 82, 173>>

\* iface.getEvent(topics[0]): the event fragments with the topic hash
MatchingEvents(iface, log) ==
    { i \in 1..Len(iface) :
        /\ iface[i].type = "event"
        /\ TopicHash(iface[i].name) = log.topic0 }

\* lines 119-140 for one log: "null" for a log that is skipped (no topics,
\* no event of the ABI), "threw" when parseLog throws and the catch of line
\* 138 returns null, "decoded" otherwise.  decodeEventLog reads the indexed
\* parameters from the topics after the first and the others from the data
\* and throws when either has too few words; surplus words are not read.
ParseLog(iface, log) ==
    IF log.topic0 = <<>> THEN "null"
    ELSE LET m == MatchingEvents(iface, log)
         IN  IF m = {} THEN "null"
             ELSE LET f == iface[CHOOSE i \in m : \A j \in m : i <= j]
                  IN  IF log.indexedWords < f.indexed \/ log.words < f.plain
                      THEN "threw" ELSE "decoded"

\* lines 125-137: the entry of a decoded log
DecodedLog(iface, log) ==
    LET m == MatchingEvents(iface, log)
        f == iface[CHOOSE i \in m : \A j \in m : i <= j]
    IN  [name |-> f.name, params |-> f.indexed + f.plain, address |-> log.address]

\* line 143
CouldNotDecodeLogs == "Could not decode any logs with provided ABI"

\* lines 112-150: the decodeError the call leaves, what parseLog did with
\* each log, whether onDecodedLogs is invoked and with what
DecodeLogs(abi, ls) ==
    IF abi.kind = "empty" \/ ls = <<>>
    THEN [error |-> Null, parsed |-> <<>>, invoked |-> FALSE, decoded |-> <<>>]
    ELSE IF abi.kind = "notJson"
    THEN [error |-> "SyntaxError", parsed |-> <<>>, invoked |-> FALSE, decoded |-> <<>>]
    ELSE IF abi.kind = "notArray"
    THEN [error |-> "TypeError", parsed |-> <<>>, invoked |-> FALSE, decoded |-> <<>>]
    ELSE LET iface == Interface(abi)
             parsed == [i \in 1..Len(ls) |-> ParseLog(iface, ls[i])]
             kept == SelectSeq([i \in 1..Len(ls) |-> [log |-> ls[i], result |-> parsed[i]]],
                               LAMBDA x : x.result = "decoded")
             decoded == [i \in 1..Len(kept) |-> DecodedLog(iface, kept[i].log)]
         IN  IF decoded = <<>>
             THEN [error |-> CouldNotDecodeLogs, parsed |-> parsed, invoked |-> FALSE,
                   decoded |-> <<>>]
             ELSE [error |-> Null, parsed |-> parsed, invoked |-> TRUE, decoded |-> decoded]

\* onChange of the textarea, line 168
SetLogAbiInput(abi) ==
    /\ logAbiInput' = abi
    /\ UNCHANGED <<logs, logDecodeError, decodedLogs, logCall>>
    /\ UNCHANGED <<transactionData, abiInput, decodeError, decodedFunction, fnCall>>
    /\ UNCHANGED <<toolVars, lookupVars, introVars, routeVars, walletVars, pageVars>>

\* the Decode button of the logs dialog
DecodeEventLogs ==
    LET r == DecodeLogs(logAbiInput, logs)
    IN  /\ logDecodeError' = r.error
        /\ decodedLogs' = IF r.invoked THEN r.decoded ELSE decodedLogs
        /\ logCall' = [called |-> TRUE, abi |-> logAbiInput, invoked |-> r.invoked,
                       parsed |-> r.parsed]
        /\ UNCHANGED <<logs, logAbiInput>>
        /\ UNCHANGED <<transactionData, abiInput, decodeError, decodedFunction, fnCall>>
        /\ UNCHANGED <<toolVars, lookupVars, introVars, routeVars, walletVars, pageVars>>

\* the most logs of a receipt
MaxLogs == 2

\* a Transfer log with i topics after topics[0] and w words of data
TransferLog(i, w) ==
    [address |-> "token", topic0 |-> TopicHash("Transfer"), indexedWords |-> i, words |-> w]

\* the logs of a receipt: the Transfer logs of an ERC-20 token (two indexed
\* topics, one word of data) and of an ERC-721 token (three, none), Transfer
\* logs with a topic less and a topic more than ERC-20 has, a log of another
\* event, a log without topics
Logs ==
    { TransferLog(2, 1), TransferLog(3, 0), TransferLog(1, 1), TransferLog(3, 1),
      [address |-> "other", topic0 |-> <<1, 2, 3, 4>>, indexedWords |-> 0, words |-> 1],
      [address |-> "other", topic0 |-> <<>>, indexedWords |-> 0, words |-> 1] }

Receipts == UNION { [1..n -> Logs] : n \in 1..MaxLogs }

\* the decoder of one receipt's logs
InitLogs ==
    /\ chain = <<Block(0, 1)>>
    /\ InitBtc
    /\ InitUnit
    /\ InitHex
    /\ InitLookup
    /\ transactionData = NoData
    /\ abiInput = NoAbi
    /\ decodeError = Null
    /\ decodedFunction = NoFunction
    /\ fnCall = [called |-> FALSE, abi |-> NoAbi, invoked |-> FALSE, previous |-> NoFunction]
    /\ logs \in Receipts
    /\ logAbiInput = NoAbi
    /\ logDecodeError = Null
    /\ decodedLogs = <<>>
    /\ logCall = [called |-> FALSE, abi |-> NoAbi, invoked |-> FALSE, parsed |-> <<>>]
    /\ InitIntro
    /\ InitRoute
    /\ InitWallet
    /\ InitPage

\* the ABI texts pasted into the logs dialog: those without functions
LogAbiTexts == { abi \in AbiTexts : \A i \in 1..Len(abi.items) : abi.items[i].type # "function" }

NextLogs ==
    \/ ~logCall.called /\ \E abi \in LogAbiTexts : SetLogAbiInput(abi)
    \/ logCall.called /\ \E abi \in RepastedAbiTexts : SetLogAbiInput(abi)
    \/ DecodeEventLogs

SpecLogs == InitLogs /\ [][NextLogs]_vars

-----------------------------------------------------------------------------
(* Properties of decodeEventLogs. *)

\* log i matches an event of the ABI whose number of indexed parameters
\* differs from the number of topics after the first
TopicCountMismatch(abi, log) ==
    /\ abi.kind = "array"
    /\ log.topic0 # <<>>
    /\ MatchingEvents(Interface(abi), log) # {}
    /\ LET m == MatchingEvents(Interface(abi), log)
           f == Interface(abi)[CHOOSE i \in m : \A j \in m : i <= j]
       IN  log.indexedWords # f.indexed

\* C15: after decodeEventLogs, a log whose number of topics minus one
\* differs from the number of indexed parameters of the matched event was
\* not decoded and an error is reported to the caller.
C15_TopicCountMismatchReported ==
    logCall.called =>
        \A i \in 1..Len(logs) :
            TopicCountMismatch(logCall.abi, logs[i]) =>
                /\ logCall.parsed[i] # "decoded"
                /\ logDecodeError # Null

-----------------------------------------------------------------------------
(* part_004: AddressType, the effect that fetches and analyses the code of *)
(* a contract.  Code is a sequence of bytes; Contract is the one of sevm,  *)
(* reduced to what the effect reads from it.                               *)

\* the longest code drawn from CodeBytes
MaxCodeLen == 3

\* STOP, EQ, PUSH1, PUSH4
CodeBytes == {0, 20, 96, 99}

\* the bytes of operand after an opcode
OperandSize(byte) == CASE byte = 96 -> 1 [] byte = 99 -> 4 [] OTHER -> 0

Mnemonic(byte) ==
    CASE byte = 0 -> "STOP" [] byte = 20 -> "EQ" [] byte = 96 -> "PUSH1"
      [] byte = 99 -> "PUSH4" [] OTHER -> "INVALID"

\* contract.opcodes(), line 60: the code walked left to right, an operand
\* cut short by the end of the code kept as far as it goes
RECURSIVE Opcodes(_)
Opcodes(code) ==
    IF code = <<>> THEN <<>>
    ELSE LET n == OperandSize(code[1])
             last == IF 1 + n > Len(code) THEN Len(code) ELSE 1 + n
         IN  <<[mnemonic |-> Mnemonic(code[1]), operand |-> SubSeq(code, 2, last)]>>
                \o Opcodes(SubSeq(code, last + 1, Len(code)))

\* patchdb(), line 59: the signature the 4byte database has for a selector
Signature(selector) ==
    IF selector = Selector("transfer") THEN "transfer"
    ELSE IF selector = Selector("approve") THEN "approve"
    ELSE "unknown"

\* contract.getFunctions() as lines 64-75 parse it: the selectors the code
\* compares (PUSH4 then EQ), each with its name; none is view_ or pure_
GetFunctions(code) ==
    LET ops == Opcodes(code)
        at == SelectSeq([i \in 1..Len(ops) |-> i],
                        LAMBDA i : /\ ops[i].mnemonic = "PUSH4"
                                   /\ Len(ops[i].operand) = 4
                                   /\ i < Len(ops)
                                   /\ ops[i + 1].mnemonic = "EQ")
    IN  [k \in 1..Len(at) |-> [name |-> Signature(ops[at[k]].operand), type |-> "write"]]

\* contract.solidify(), line 80: a line for every function found, the
\* opcodes as they are for the rest
Solidify(code) ==
    IF GetFunctions(code) = <<>>
    THEN [i \in 1..Len(Opcodes(code)) |-> Opcodes(code)[i].mnemonic]
    ELSE [i \in 1..Len(GetFunctions(code)) |-> GetFunctions(code)[i].name]

\* lines 40-57 and 85: the effect of the first render.  fetchContractInfo has
\* no await: it sets loading, clears error and resets loading in one go;
\* then getCode is called, with a then and no catch
RunEffect ==
    /\ getCode = "none"
    /\ IF isContract /\ address # ""
       THEN /\ getCode' = "pending"
            /\ loading' = FALSE
            /\ error' = Null
       ELSE /\ getCode' = "skipped"
            /\ UNCHANGED <<loading, error>>
    /\ UNCHANGED <<isContract, address, contractCode, opcodes, readable, functions,
                   events, unhandled>>
    /\ UNCHANGED <<toolVars, lookupVars, decoderVars, routeVars, walletVars, pageVars>>

\* lines 58-83: getCode resolves with the code, the then callback runs
ResolveGetCode(code) ==
    /\ getCode = "pending"
    /\ getCode' = "fulfilled"
    /\ contractCode' = code
    /\ opcodes' = [i \in 1..Len(Opcodes(code)) |-> Opcodes(code)[i].mnemonic]
    /\ readable' = Solidify(code)
    /\ functions' = GetFunctions(code)
    /\ events' = <<>>
    /\ UNCHANGED <<isContract, address, loading, error, unhandled>>
    /\ UNCHANGED <<toolVars, lookupVars, decoderVars, routeVars, walletVars, pageVars>>

\* line 58: getCode rejects (the RPC endpoint fails); the promise that then
\* returns rejects with it and nothing handles it
RejectGetCode ==
    /\ getCode = "pending"
    /\ getCode' = "rejected"
    /\ unhandled' = TRUE
    /\ UNCHANGED <<isContract, address, contractCode, opcodes, readable, functions,
                   events, loading, error>>
    /\ UNCHANGED <<toolVars, lookupVars, decoderVars, routeVars, walletVars, pageVars>>

\* the code the node returns for a contract: not empty
Codes ==
    (Texts(CodeBytes, MaxCodeLen) \ {<<>>})
      \cup { <<99>> \o Selector("transfer") \o <<20>>,
             <<99>> \o Selector("approve") \o <<20, 99, 1, 2, 3, 4, 20>>,
             <<99>> \o Selector("transfer") }

Addresses == {"", "0xA", "0xB"}

InitIntroSpec ==
    /\ chain = <<Block(0, 1)>>
    /\ InitBtc
    /\ InitUnit
    /\ InitHex
    /\ InitLookup
    /\ InitDecoder
    /\ isContract \in BOOLEAN
    /\ address \in Addresses
    /\ getCode = "none"
    /\ contractCode = <<>>
    /\ opcodes = <<>>
    /\ readable = <<>>
    /\ functions = <<>>
    /\ events = <<>>
    /\ loading = FALSE
    /\ error = Null
    /\ unhandled = FALSE
    /\ InitRoute
    /\ InitWallet
    /\ InitPage

NextIntro ==
    \/ RunEffect
    \/ \E code \in Codes : ResolveGetCode(code)
    \/ RejectGetCode

SpecIntro == InitIntroSpec /\ [][NextIntro]_vars

-----------------------------------------------------------------------------
(* Properties of the introspection. *)

\* the opcode, interface and pseudo-source views are populated
Populated == contractCode # <<>> /\ opcodes # <<>> /\ readable # <<>>

\* C16: once the code fetch has settled, either the views are populated or
\* the component is in a handled failure state (its error is set), and no
\* error has escaped unhandled.
C16_NeverFails ==
    getCode \in {"fulfilled", "rejected"} =>
        /\ ~unhandled
        /\ Populated \/ error # Null

-----------------------------------------------------------------------------
(* BlockTimeConverter.tsx 10-27: handleBlockNumberChange, and the round    *)
(* trip from a block number to its timestamp and back.                     *)

\* getBlock(num) of lib/blockchain.ts: null for a number above the latest
GetBlockAt(n) == IF n \in BlockNumbers THEN GetBlock(n) ELSE NoBlock

\* line 13
ValidBlockNumber(value) == StringToNumber(value) # NaN /\ value # <<>>

\* lines 11-15: the call up to its await; lines 24-26: no fetch at all
NewLookup(value) ==
    [value |-> value, num |-> StringToNumber(value),
     pc |-> IF ValidBlockNumber(value) THEN "getBlock" ELSE "done", failed |-> FALSE]

\* the block's number shown in place of its timestamp
LookupTextNumber(block) ==
    IF block # NoBlock THEN NatToString(block.number) ELSE <<>>

\* lines 16-20: what the resolved call writes into the timestamp field
LookupText(block) ==
    IF block # NoBlock THEN NatToString(block.timestamp) ELSE <<>>

\* onChange of the block-number input
EditBlockNumber(value) ==
    /\ blockNumber' = value
    /\ lookups' = Append(lookups, NewLookup(value))
    /\ IF ValidBlockNumber(value)
       THEN UNCHANGED timestamp
       ELSE timestamp' = <<>>
    /\ UNCHANGED <<chain, searches, unitVars, hexVars>>
    /\ UNCHANGED <<decoderVars, introVars, routeVars, walletVars, pageVars>>

\* line 15 resolves, lines 16-20 run
ResolveLookup(i) ==
    /\ lookups[i].pc = "getBlock"
    /\ lookups' = [lookups EXCEPT ![i].pc = "done"]
    /\ timestamp' = LookupText(GetBlockAt(lookups[i].num))
    /\ UNCHANGED <<chain, blockNumber, searches, unitVars, hexVars>>
    /\ UNCHANGED <<decoderVars, introVars, routeVars, walletVars, pageVars>>

\* line 15 rejects (transport failure), lines 21-23 run
RejectLookup(i) ==
    /\ lookups[i].pc = "getBlock"
    /\ lookups' = [lookups EXCEPT ![i].pc = "done", ![i].failed = TRUE]
    /\ timestamp' = <<>>
    /\ UNCHANGED <<chain, blockNumber, searches, unitVars, hexVars>>
    /\ UNCHANGED <<decoderVars, introVars, routeVars, walletVars, pageVars>>

\* the timestamp the lookup has shown is put back into the timestamp field
\* (onChange with the field's own content)
ReEnterTimestamp ==
    /\ Len(lookups) = 1
    /\ lookups[1].pc = "done"
    /\ searches = <<>>
    /\ timestamp # <<>>
    /\ EditTimestamp(timestamp)

\* the texts typed into the block-number field
BlockNumberInputs ==
    { NatToString(n) : n \in 0..(MaxLatest + 1) } \cup { <<>>, <<"z">>, <<"0", "1">> }

InitRoundTrip ==
    /\ chain \in Chains(MaxLatest, MaxTs)
    /\ InitBtc
    /\ InitUnit
    /\ InitHex
    /\ InitApp
    /\ InitPage

\* one block number is typed, and the timestamp it gives is converted back
NextRoundTrip ==
    \/ lookups = <<>> /\ \E value \in BlockNumberInputs : EditBlockNumber(value)
    \/ \E i \in DOMAIN lookups : ResolveLookup(i)
    \/ \E i \in DOMAIN lookups : RejectLookup(i)
    \/ ReEnterTimestamp
    \/ \E i \in DOMAIN searches : ResolveGetBlockNumber(i)
    \/ \E i \in DOMAIN searches : ResolveLoopGetBlock(i)
    \/ \E i \in DOMAIN searches : ResolveFinalGetBlock(i)
    \/ \E i \in DOMAIN searches : RejectFetch(i)

SpecRoundTrip == InitRoundTrip /\ [][NextRoundTrip]_vars

-----------------------------------------------------------------------------
(* Properties of the block/time round trip. *)

\* block timestamps strictly increase with the block number
StrictlyIncreasing ==
    \A i, j \in 1..Len(chain) : i < j => chain[i].timestamp < chain[j].timestamp

\* block number n was converted to its timestamp and that timestamp back:
\* both calls have settled and no fetch was rejected
RoundTripDone ==
    /\ Len(lookups) = 1
    /\ lookups[1].pc = "done"
    /\ ~lookups[1].failed
    /\ ValidBlockNumber(lookups[1].value)
    /\ Len(searches) = 1
    /\ Settled(searches[1])

\* C17: on a chain whose blocks 0..latest are all fetchable and whose
\* timestamps strictly increase, a block number n in 0..latest converted to
\* its timestamp and that timestamp converted back yields n: the timestamp
\* field shows the timestamp of block n and the block-number field n.
C17_BlockTimeRoundTrip ==
    (AllFetchable /\ StrictlyIncreasing /\ RoundTripDone /\ lookups[1].num \in BlockNumbers) =>
        /\ timestamp = NatToString(GetBlock(lookups[1].num).timestamp)
        /\ blockNumber = NatToString(lookups[1].num)

\* block 2 of the chain with timestamps 1, 3, 4, 5 gives 4, and 4 gives 2
C17_Witness ==
    /\ chain = MkChain(<<1, 3, 4, 5>>)
    /\ RoundTripDone
    /\ lookups[1].value = <<"2">>
    /\ timestamp = <<"4">>
    /\ blockNumber = <<"2">>
    /\ Len(searches[1].fetched) >= 2

-----------------------------------------------------------------------------
(* App.tsx 138-264: the hash router.  A hash is a sequence of tokens: the  *)
(* separators "#", "/", "?", "&", "=" and words that hold none of them, so *)
(* that substring, startsWith and split are computed on it.                *)

\* s.split(sep): the pieces between the separators, at least one
RECURSIVE Split(_, _)
Split(s, sep) ==
    IF \A i \in 1..Len(s) : s[i] # sep THEN <<s>>
    ELSE LET k == CHOOSE i \in 1..Len(s) : s[i] = sep /\ \A j \in 1..(i - 1) : s[j] # sep
         IN  <<SubSeq(s, 1, k - 1)>> \o Split(SubSeq(s, k + 1, Len(s)), sep)

\* {} of line 156
NoParams == [k \in {} |-> <<>>]

\* the value of a prop that is not set
Undefined == <<"undefined">>

\* line 145: window.location.hash.substring(1) || '/blocks'
HashOf(location) == IF Len(location) <= 1 THEN <<"/", "blocks">> ELSE Tail(location)

\* line 146, first element
PathOf(hash) == Split(hash, "?")[1]

\* line 146, second element: undefined without a "?"
ParamStringOf(hash) == IF Len(Split(hash, "?")) >= 2 THEN Split(hash, "?")[2] ELSE <<>>

\* lines 149-150
RoutePath(path) == IF path # <<>> /\ path[1] = "/" THEN Tail(path) ELSE path

RouteName(hash) == Split(RoutePath(PathOf(hash)), "/")[1]

RouteParams(hash) == Tail(Split(RoutePath(PathOf(hash)), "/"))

\* lines 159-169: the parameter a route takes from the path
PathKey(routeName) ==
    CASE routeName = <<"block">> -> "blockNumber"
      [] routeName = <<"tx">> -> "txHash"
      [] routeName \in {<<"address">>, <<"profile">>, <<"token">>} -> "address"
      [] OTHER -> ""

PathParams(hash) ==
    IF PathKey(RouteName(hash)) # "" /\ RouteParams(hash) # <<>> /\ RouteParams(hash)[1] # <<>>
    THEN PathKey(RouteName(hash)) :> RouteParams(hash)[1]
    ELSE NoParams

\* one key=value of the query: the key is a word, the value what follows
\* the first "="
QueryKey(pair) == Split(pair, "=")[1][1]

QueryValue(pair) ==
    IF \A i \in 1..Len(pair) : pair[i] # "=" THEN <<>>
    ELSE SubSeq(pair, Len(Split(pair, "=")[1]) + 2, Len(pair))

\* lines 172-177: new URLSearchParams(paramString).forEach, a later key over
\* an earlier one and over the path parameter
RECURSIVE QueryParams(_, _)
QueryParams(pairs, acc) ==
    IF pairs = <<>> THEN acc
    ELSE IF pairs[1] = <<>> \/ Split(pairs[1], "=")[1] = <<>> THEN QueryParams(Tail(pairs), acc)
    ELSE QueryParams(Tail(pairs), (QueryKey(pairs[1]) :> QueryValue(pairs[1])) @@ acc)

\* the parameters kept from the route before
NewParamsMerged(old, hash) ==
    QueryParams(Split(ParamStringOf(hash), "&"), PathParams(hash) @@ old)

\* lines 156-179: newParams
NewParams(old, hash) ==
    QueryParams(Split(ParamStringOf(hash), "&"), PathParams(hash))

\* the listener of hashchange, and the first call on line 183
HandleHashChange ==
    /\ hashchange
    /\ hashchange' = FALSE
    /\ route' = IF RouteName(HashOf(locationHash)) = <<>> THEN <<"blocks">>
                ELSE RouteName(HashOf(locationHash))
    /\ params' = NewParams(params, HashOf(locationHash))
    /\ UNCHANGED <<locationHash, searchQuery, searchLog>>
    /\ UNCHANGED <<toolVars, lookupVars, decoderVars, introVars, walletVars, pageVars>>

\* params.key of renderContent
Param(key) == IF key \in DOMAIN params THEN params[key] ELSE Undefined

\* a page with the prop it is given
Page(component, arg) == [component |-> component, arg |-> arg]

\* lines 200-253
RenderContent ==
    CASE route = <<"blocks">> -> Page("BlockList", Undefined)
      [] route = <<"block">> -> Page("BlockDetails", Param("blockNumber"))
      [] route = <<"tx">> -> Page("TransactionDetails", Param("txHash"))
      [] route = <<"address">> -> Page("AddressDetails", Param("address"))
      [] route = <<"profile">> -> Page("Profile", Param("address"))
      [] route = <<"transactions">> -> Page("TransactionsPage", Undefined)
      [] route = <<"accounts">> -> Page("AccountsPage", Undefined)
      [] route = <<"tokens">> -> Page("TokensPage", Undefined)
      [] route = <<"token">> -> Page("TokenDetails", Param("address"))
      [] route = <<"keccak">> -> Page("KeccakTable", Undefined)
      [] route = <<"helper">> -> Page("UnitHelper", Undefined)
      [] route = <<"rpc">> -> Page("RpcInterface", Undefined)
      [] route = <<"logs">> -> Page("EventLogFilter", Undefined)
      [] route = <<"web3-demo">> -> Page("Web3UtilityDemo", Undefined)
      [] OTHER -> Page("BlockList", Undefined)

\* window.location.hash = h, by a link, the address bar or onBack; the
\* browser queues hashchange when the hash differs
Navigate(h) ==
    /\ locationHash' = h
    /\ hashchange' = (hashchange \/ h # locationHash)
    /\ UNCHANGED <<route, params, searchQuery, searchLog>>
    /\ UNCHANGED <<toolVars, lookupVars, decoderVars, introVars, walletVars, pageVars>>

\* the route names of the hashes: those of renderContent, one in another
\* case, one unknown, none
RouteWords ==
    { <<"blocks">>, <<"block">>, <<"tx">>, <<"address">>, <<"profile">>, <<"transactions">>,
      <<"accounts">>, <<"tokens">>, <<"token">>, <<"keccak">>, <<"helper">>, <<"rpc">>,
      <<"logs">>, <<"web3-demo">>, <<"Block">>, <<"nope">>, <<>> }

\* what follows the route name in the path
PathTails == { <<>>, <<"/">>, <<"/", "5">>, <<"/", "0xabc", "/", "more">> }

\* the query of a hash
Queries ==
    { <<>>, <<"?">>, <<"?", "page", "=", "2">>,
      <<"?", "blockNumber", "=", "7", "&", "page", "=", "2", "=", "3", "&", "page">> }

\* the hashes a page is opened with
Hashes ==
    { <<>>, <<"#">> }
      \cup { lead \o name \o rest \o query :
               lead \in { <<"#", "/">>, <<"#">> }, name \in RouteWords,
               rest \in PathTails, query \in Queries }

\* the hashes of the links followed from a page
LinkHashes ==
    { <<"#", "/", "blocks">>, <<"#", "/", "tx", "/", "0xabc">>, <<"#", "/", "web3-demo">>,
      <<"#", "/", "block", "/", "5", "?", "page", "=", "2">>, <<"#", "/", "nope">>, <<>> }

\* the page is opened with any hash; the effect of App calls handleHashChange
InitRouteSpec ==
    /\ chain = <<Block(0, 1)>>
    /\ InitBtc
    /\ InitUnit
    /\ InitHex
    /\ InitLookup
    /\ InitDecoder
    /\ InitIntro
    /\ locationHash \in Hashes
    /\ hashchange = TRUE
    /\ route = <<"blocks">>
    /\ params = NoParams
    /\ searchQuery = <<>>
    /\ searchLog = [submitted |-> FALSE, turn |-> 0, query |-> <<>>, before |-> <<>>,
                    alerted |-> FALSE]
    /\ InitWallet
    /\ InitPage

NextRoute ==
    \/ HandleHashChange
    \/ ~hashchange /\ \E h \in LinkHashes : Navigate(h)

SpecRoute == InitRouteSpec /\ [][NextRoute]_vars

-----------------------------------------------------------------------------
(* Properties of the router. *)

\* the hash without "#" and without one leading "/"
HashBody ==
    LET h == IF locationHash # <<>> /\ locationHash[1] = "#" THEN Tail(locationHash)
             ELSE locationHash
    IN  IF h # <<>> /\ h[1] = "/" THEN Tail(h) ELSE h

\* the tokens of s before the first of the separators
Before(s, seps) ==
    IF \A i \in 1..Len(s) : s[i] \notin seps THEN s
    ELSE SubSeq(s, 1, (CHOOSE i \in 1..Len(s) :
                          s[i] \in seps /\ \A j \in 1..(i - 1) : s[j] \notin seps) - 1)

\* the first path segment of the hash, and the one after it
FirstSegment == Before(HashBody, {"/", "?"})

PathArgument ==
    LET rest == SubSeq(HashBody, Len(FirstSegment) + 1, Len(HashBody))
    IN  IF rest # <<>> /\ rest[1] = "/" THEN Before(Tail(rest), {"/", "?"}) ELSE <<>>

\* the query of the hash, key by key
QueryOfHash == QueryParams(Split(ParamStringOf(HashOf(locationHash)), "&"), NoParams)

\* the routes of the README (part_000 81-97) with their pages
DocumentedRoutes ==
    { <<"blocks">>, <<"block">>, <<"tx">>, <<"address">>, <<"profile">>, <<"tokens">>,
      <<"token">>, <<"transactions">>, <<"accounts">>, <<"logs">>, <<"rpc">>, <<"helper">>,
      <<"keccak">> }

DocumentedPage(name) ==
    CASE name = <<"blocks">> -> "BlockList"
      [] name = <<"block">> -> "BlockDetails"
      [] name = <<"tx">> -> "TransactionDetails"
      [] name = <<"address">> -> "AddressDetails"
      [] name = <<"profile">> -> "Profile"
      [] name = <<"tokens">> -> "TokensPage"
      [] name = <<"token">> -> "TokenDetails"
      [] name = <<"transactions">> -> "TransactionsPage"
      [] name = <<"accounts">> -> "AccountsPage"
      [] name = <<"logs">> -> "EventLogFilter"
      [] name = <<"rpc">> -> "RpcInterface"
      [] name = <<"helper">> -> "UnitHelper"
      [] name = <<"keccak">> -> "KeccakTable"

\* the documented routes that take a path argument
ArgumentRoutes == { <<"block">>, <<"tx">>, <<"address">>, <<"profile">>, <<"token">> }

\* the route is the first path segment of the hash, blocks for none
RouteIsFirstSegment ==
    route = IF FirstSegment = <<>> THEN <<"blocks">> ELSE FirstSegment

-----------------------------------------------------------------------------
(* SearchBar.tsx: handleSearch.  The query is a sequence of characters.    *)

\* the hex digits after 0x of a transaction hash and of an address
TxHashDigits == 64

AddressDigits == 40

\* /^0x[a-fA-F0-9]{n}$/.test(q)
IsPrefixedHex(q, n) ==
    /\ Len(q) = n + 2
    /\ q[1] = "0"
    /\ q[2] = "x"
    /\ \A i \in 3..Len(q) : RadixDigitVal(q[i]) < 16

\* the address pattern without its end anchor
ClassifyUnanchored(q) ==
    IF IsPrefixedHex(q, TxHashDigits) THEN "tx"
    ELSE IF Len(q) >= AddressDigits + 2 /\ IsPrefixedHex(SubSeq(q, 1, AddressDigits + 2), AddressDigits)
    THEN "address"
    ELSE IF q # <<>> /\ IsDigits(q) THEN "block"
    ELSE "invalid"

\* lines 13-25: the branch taken
Classify(q) ==
    IF IsPrefixedHex(q, TxHashDigits) THEN "tx"
    ELSE IF IsPrefixedHex(q, AddressDigits) THEN "address"
    ELSE IF q # <<>> /\ IsDigits(q) THEN "block"
    ELSE "invalid"

\* window.location.hash after the assignment of "/<kind>/<q>"
SearchHash(kind, q) == <<"#", "/", kind, "/">> \o q

\* SearchBar is part of the block list page only (App.tsx 205, 243)
SearchBarShown == RenderContent.component = "BlockList"

\* onChange of the search input, line 37
TypeQuery(q) ==
    /\ SearchBarShown
    /\ searchQuery' = q
    /\ UNCHANGED <<locationHash, hashchange, route, params, searchLog>>
    /\ UNCHANGED <<toolVars, lookupVars, decoderVars, introVars, walletVars, pageVars>>

\* onSubmit of the search form, lines 7-29
HandleSearch ==
    /\ SearchBarShown
    /\ LET q == searchQuery
           kind == Classify(q)
           blank == Trim(q) = <<>>
           target == IF blank \/ kind = "invalid" THEN locationHash ELSE SearchHash(kind, q)
       IN  /\ locationHash' = target
           /\ hashchange' = (hashchange \/ target # locationHash)
           /\ searchQuery' = IF blank THEN searchQuery ELSE <<>>
           /\ searchLog' = [submitted |-> TRUE, turn |-> 1 - searchLog.turn, query |-> q,
                            before |-> locationHash,
                            alerted |-> (~blank /\ kind = "invalid")]
    /\ UNCHANGED <<route, params>>
    /\ UNCHANGED <<toolVars, lookupVars, decoderVars, introVars, walletVars, pageVars>>

\* 0x and n times the character c
HexQuery(n, c) == <<"0", "x">> \o [i \in 1..n |-> c]

\* the queries typed: hashes and addresses of the right length, one digit
\* short and one long, with a character that is no hex digit, with 0X;
\* numbers; blank and padded texts
SearchQueries ==
    { HexQuery(n, "a") : n \in { AddressDigits - 1, AddressDigits, AddressDigits + 1,
                                 TxHashDigits - 1, TxHashDigits, TxHashDigits + 1 } }
      \cup { HexQuery(AddressDigits, "F"), HexQuery(AddressDigits - 1, "a") \o <<"g">>,
             <<"0", "X">> \o [i \in 1..AddressDigits |-> "a"],
             HexQuery(TxHashDigits - 1, "0") \o <<"F">>,
             [i \in 1..(AddressDigits + 2) |-> "1"] }
      \cup { <<"1", "2", "3">>, <<"0">>, <<"0", "0", "7">>, <<>>, <<" ">>, <<" ", "1", "2">>,
             <<"1", "2", " ">>, <<"1", "a">>, <<"0", "x">>, <<"-", "1">>, <<"1", ".", "5">> }

\* the page is opened on the block list
InitSearchBar ==
    /\ chain = <<Block(0, 1)>>
    /\ InitBtc
    /\ InitUnit
    /\ InitHex
    /\ InitLookup
    /\ InitDecoder
    /\ InitIntro
    /\ locationHash \in { <<>>, <<"#", "/", "blocks">>, <<"#", "/", "nope">> }
    /\ hashchange = TRUE
    /\ route = <<"blocks">>
    /\ params = NoParams
    /\ searchQuery = <<>>
    /\ searchLog = [submitted |-> FALSE, turn |-> 0, query |-> <<>>, before |-> <<>>,
                    alerted |-> FALSE]
    /\ InitWallet
    /\ InitPage

\* queries are typed and submitted on the block list; onBack of the page a
\* search leads to goes back to it
NextSearchBar ==
    \/ HandleHashChange
    \/ \E q \in SearchQueries : TypeQuery(q)
    \/ HandleSearch
    \/ ~SearchBarShown /\ ~hashchange /\ Navigate(<<"#", "/", "blocks">>)

SpecSearchBar == InitSearchBar /\ [][NextSearchBar]_vars

-----------------------------------------------------------------------------
(* Properties of the search bar. *)

\* q is 0x followed by exactly n hex digits
HexOfLength(q, n) ==
    /\ Len(q) = n + 2
    /\ SubSeq(q, 1, 2) = <<"0", "x">>
    /\ \A i \in 3..Len(q) : q[i] \in BaseAlphabet("hex")

\* q is only decimal digits
OnlyDigits(q) == q # <<>> /\ \A i \in 1..Len(q) : q[i] \in BaseAlphabet("decimal")

\* the kinds of query q is: at most one for every q
KindsOf(q) ==
    { k \in {"tx", "address", "block"} :
        \/ k = "tx" /\ HexOfLength(q, TxHashDigits)
        \/ k = "address" /\ HexOfLength(q, AddressDigits)
        \/ k = "block" /\ OnlyDigits(q) }

\* a step that submits the search form
Submits == searchLog' # searchLog

\* the submission of a non-blank query q: one outcome, the input cleared
C19_Outcome ==
    LET q == searchLog'.query
    IN  (Submits /\ Trim(q) # <<>>) =>
            /\ searchQuery' = <<>>
            /\ Cardinality(KindsOf(q)) <= 1
            /\ \A k \in KindsOf(q) :
                  /\ locationHash' = SearchHash(k, q)
                  /\ hashchange'
                  /\ ~searchLog'.alerted
            /\ KindsOf(q) = {} =>
                  /\ searchLog'.alerted
                  /\ locationHash' = locationHash
                  /\ hashchange' = hashchange
                  /\ route' = route

\* once the router has handled the hash a search has set, the page of the
\* query's kind is shown with the query
C19_Routed ==
    \A k \in KindsOf(searchLog.query) :
        (searchLog.submitted /\ ~hashchange /\ locationHash = SearchHash(k, searchLog.query)) =>
            /\ route = <<k>>
            /\ RenderContent.arg = searchLog.query
            /\ RenderContent.component =
                  CASE k = "tx" -> "TransactionDetails"
                    [] k = "address" -> "AddressDetails"
                    [] k = "block" -> "BlockDetails"

\* C19: a submitted non-blank query leads to exactly one outcome: /tx/<q> if
\* q is 0x and 64 hex digits, /address/<q> if q is 0x and 40 hex digits,
\* /block/<q> if q is only decimal digits, and otherwise no navigation (the
\* route is unchanged and an alert is shown); the three patterns exclude one
\* another; the search input is cleared after every such submission.
C19_SearchClassification == [][C19_Outcome]_vars /\ [](C19_Routed)

\* 0x and 64 times a was searched: the transaction page shows it
C19_Witness ==
    /\ searchLog.submitted
    /\ searchLog.query = HexQuery(TxHashDigits, "a")
    /\ locationHash = SearchHash("tx", HexQuery(TxHashDigits, "a"))
    /\ ~hashchange
    /\ RenderContent = Page("TransactionDetails", HexQuery(TxHashDigits, "a"))
    /\ searchQuery = <<>>

-----------------------------------------------------------------------------
(* utils/web3.ts 346-413: switchNetwork and addNetwork.  An error the      *)
(* wallet rejects with is its code as text: "4902" and "4001" the numbers, *)
(* "'4902'" the string, "undefined" an error without code, "null" a        *)
(* rejection with null.                                                    *)

\* a request sent to the wallet, lines 359-362 and 394-405
Request(method, chainId) ==
    [method |-> method, chainId |-> <<"0", "x">> \o ToRadixString(chainId, 16)]

\* the call rejects: new Web3Error(message, error.code || fallback, error)
RejectWith(call, code) ==
    [call EXCEPT !.pc = "done", !.outcome = "rejected", !.class = "Web3Error", !.code = code]

\* error.code || fallback of lines 374 and 409
CodeOr(err, fallback) == IF err \in {"undefined", "null"} THEN fallback ELSE err

\* the network is added after any rejection when there is a config
ShouldAddAnyCode(err, config) == config # 0

\* line 365: switchError.code === 4902 && networkConfig
ShouldAdd(err, config) == err = "4902" /\ config # 0

\* lines 350-362: the call up to its first await
SwitchNetwork(chainId, config) ==
    /\ switchCall.pc = "none"
    /\ LET call == [NoSwitchCall EXCEPT !.chainId = chainId, !.config = config]
       IN  IF ethereum
           THEN /\ requests' = Append(requests, Request("wallet_switchEthereumChain", chainId))
                /\ switchCall' = [call EXCEPT !.pc = "switching"]
           ELSE /\ switchCall' = RejectWith(call, "NO_PROVIDER")
                /\ UNCHANGED requests
    /\ UNCHANGED ethereum
    /\ UNCHANGED <<toolVars, lookupVars, decoderVars, introVars, routeVars, pageVars>>

\* the switch request resolves
SwitchResolves ==
    /\ switchCall.pc = "switching"
    /\ switchCall' = [switchCall EXCEPT !.pc = "done", !.outcome = "resolved"]
    /\ UNCHANGED <<ethereum, requests>>
    /\ UNCHANGED <<toolVars, lookupVars, decoderVars, introVars, routeVars, pageVars>>

\* the switch request rejects with err, lines 363-377; addNetwork runs up to
\* its await, lines 388-394
SwitchRejects(err) ==
    /\ switchCall.pc = "switching"
    /\ LET call == [switchCall EXCEPT !.switchError = err]
       IN  IF err # "null" /\ ShouldAdd(err, call.config)
           THEN IF ethereum
                THEN /\ requests' = Append(requests,
                                           Request("wallet_addEthereumChain", call.config))
                     /\ switchCall' = [call EXCEPT !.pc = "adding"]
                ELSE /\ switchCall' = RejectWith(call, "NO_PROVIDER")
                     /\ UNCHANGED requests
           ELSE /\ switchCall' = RejectWith(call, CodeOr(err, "SWITCH_NETWORK_FAILED"))
                /\ UNCHANGED requests
    /\ UNCHANGED ethereum
    /\ UNCHANGED <<toolVars, lookupVars, decoderVars, introVars, routeVars, pageVars>>

\* the add request resolves
AddResolves ==
    /\ switchCall.pc = "adding"
    /\ switchCall' = [switchCall EXCEPT !.pc = "done", !.added = "ok", !.outcome = "resolved"]
    /\ UNCHANGED <<ethereum, requests>>
    /\ UNCHANGED <<toolVars, lookupVars, decoderVars, introVars, routeVars, pageVars>>

\* the add request rejects with err, lines 406-411 then 371-376; a
\* rejection with null makes error.code of line 409 throw a TypeError
AddRejects(err) ==
    /\ switchCall.pc = "adding"
    /\ switchCall' = RejectWith([switchCall EXCEPT !.added = "failed"],
                                IF err = "null" THEN "SWITCH_NETWORK_FAILED"
                                ELSE CodeOr(err, "ADD_NETWORK_FAILED"))
    /\ UNCHANGED <<ethereum, requests>>
    /\ UNCHANGED <<toolVars, lookupVars, decoderVars, introVars, routeVars, pageVars>>

\* the wallet extension goes away or comes back while a request is pending
WalletToggles ==
    /\ switchCall.pc \in {"switching", "adding"}
    /\ ethereum' = ~ethereum
    /\ UNCHANGED <<requests, switchCall>>
    /\ UNCHANGED <<toolVars, lookupVars, decoderVars, introVars, routeVars, pageVars>>

\* chain ids of lib/networks.ts: Ethereum, BNB Smart Chain, Viction
ChainIds == {1, 56, 88}

\* what a wallet rejects a request with
WalletErrors == {"4902", "4001", "'4902'", "undefined", "null"}

InitWalletSpec ==
    /\ chain = <<Block(0, 1)>>
    /\ InitBtc
    /\ InitUnit
    /\ InitHex
    /\ InitLookup
    /\ InitDecoder
    /\ InitIntro
    /\ InitRoute
    /\ ethereum \in BOOLEAN
    /\ requests = <<>>
    /\ switchCall = NoSwitchCall
    /\ InitPage

NextWallet ==
    \/ \E chainId \in ChainIds, config \in {0} \cup ChainIds : SwitchNetwork(chainId, config)
    \/ SwitchResolves
    \/ \E err \in WalletErrors : SwitchRejects(err)
    \/ AddResolves
    \/ \E err \in WalletErrors : AddRejects(err)
    \/ WalletToggles

SpecWallet == InitWalletSpec /\ [][NextWallet]_vars

-----------------------------------------------------------------------------
(* Properties of switchNetwork. *)

\* the add requests sent
AddRequests == SelectSeq(requests, LAMBDA r : r.method = "wallet_addEthereumChain")

\* C20: an add request is sent only after the switch request was rejected
\* with code 4902 and only when a networkConfig was given, and then once;
\* the call resolves if the add succeeds.  In every other failure (another
\* code, 4902 without a config, the add failing, no provider) the call
\* rejects with a Web3Error and no add request follows.
C20_FallbackOrdering ==
    /\ AddRequests # <<>> =>
          /\ switchCall.switchError = "4902"
          /\ switchCall.config # 0
          /\ requests = <<Request("wallet_switchEthereumChain", switchCall.chainId),
                          Request("wallet_addEthereumChain", switchCall.config)>>
    /\ switchCall.added = "ok" => switchCall.outcome = "resolved"
    /\ (switchCall.pc = "done" /\ switchCall.switchError = "none" /\ requests # <<>>) =>
          switchCall.outcome = "resolved"
    /\ (switchCall.pc = "done" /\ switchCall.added # "ok" /\ switchCall.switchError # "none") =>
          /\ switchCall.outcome = "rejected"
          /\ switchCall.class = "Web3Error"
          /\ (switchCall.switchError # "4902" \/ switchCall.config = 0) => AddRequests = <<>>
          /\ Len(AddRequests) <= 1
    /\ (switchCall.pc = "done" /\ requests = <<>>) =>
          /\ switchCall.outcome = "rejected"
          /\ switchCall.class = "Web3Error"

\* the switch to chain 56 was rejected with 4902, the config of chain 56 was
\* added and the call resolved
C20_Witness ==
    /\ switchCall.pc = "done"
    /\ switchCall.chainId = 56
    /\ switchCall.switchError = "4902"
    /\ switchCall.added = "ok"
    /\ switchCall.outcome = "resolved"
    /\ Len(requests) = 2
    /\ requests[2] = [method |-> "wallet_addEthereumChain", chainId |-> <<"0", "x", "3", "8">>]

-----------------------------------------------------------------------------
(* The loop invariant of the timestamp search, BlockTimeConverter.tsx      *)
(* 35-53.                                                                   *)

\* search s is past line 37: at the start of an iteration (pc "loop") or
\* out of the loop (pc "final" or "done")
InOrPastLoop(s) == s.latestNumber # -1 /\ s.pc \in {"loop", "final", "done"}

\* the range low..high of search s brackets its target
Brackets(s) ==
    /\ 0 <= s.low
    /\ s.low <= s.high + 1
    /\ s.high + 1 <= s.latestNumber + 1
    /\ \A n \in BlockNumbers : n < s.low => GetBlock(n).timestamp < s.ts
    /\ \A n \in BlockNumbers : n > s.high => GetBlock(n).timestamp > s.ts

\* C23: on a chain of fetchable blocks with non-decreasing timestamps, at
\* the start of every iteration of the search loop and at its exit,
\* 0 <= low <= high + 1 <= latest + 1, every block below low has a timestamp
\* below the target and every block above high a timestamp above it.
C23_LoopInvariant ==
    (AllFetchable /\ Monotonic(chain)) =>
        \A i \in 1..Len(searches) : InOrPastLoop(searches[i]) => Brackets(searches[i])

\* a search on a fetchable chain of three blocks or more left the loop
\* without a match after two iterations, with blocks on both sides of the
\* range
C23_Witness ==
    /\ AllFetchable
    /\ Len(chain) >= 3
    /\ \E i \in 1..Len(searches) :
          LET s == searches[i]
          IN  /\ s.pc = "done"
              /\ ~s.failed
              /\ Len(s.fetched) >= 2
              /\ s.low = s.high + 1
              /\ 0 < s.low
              /\ s.high < s.latestNumber

-----------------------------------------------------------------------------
(* part_009: TransactionLogs, the list of a receipt's logs. *)

\* lines 63-109: the entry at index i (from 0): the decoded log at that
\* index of decodedLogs when there is one, else the raw log of the receipt
LogEntry(receiptLogs, decoded, i) ==
    IF i + 1 \in DOMAIN decoded
    THEN [index |-> i, kind |-> "decoded", address |-> decoded[i + 1].address,
          name |-> decoded[i + 1].name, params |-> decoded[i + 1].params,
          topic0 |-> <<>>, indexedWords |-> 0, words |-> 0]
    ELSE [index |-> i, kind |-> "raw", address |-> receiptLogs[i + 1].address,
          name |-> Null, params |-> 0,
          topic0 |-> receiptLogs[i + 1].topic0,
          indexedWords |-> receiptLogs[i + 1].indexedWords,
          words |-> receiptLogs[i + 1].words]

\* lines 22-24 and 62: nothing for a receipt without logs, else one entry
\* per element of decodedLogs when it is not empty, of receipt.logs when it is
TransactionLogs(receiptLogs, decoded) ==
    IF receiptLogs = <<>> THEN <<>>
    ELSE LET shown == IF Len(decoded) # 0 THEN decoded ELSE receiptLogs
         IN  [k \in 1..Len(shown) |-> LogEntry(receiptLogs, decoded, k - 1)]

-----------------------------------------------------------------------------
(* Properties of the list of logs. *)

\* the last call of decodeEventLogs decoded some of the logs and not all
DecodedSome ==
    /\ logCall.called
    /\ logCall.invoked
    /\ \E i \in 1..Len(logs) : logCall.parsed[i] = "decoded"
    /\ \E i \in 1..Len(logs) : logCall.parsed[i] # "decoded"

\* the entry of receipt log i (from 0): decoded if parseLog decoded it, raw
\* otherwise
EntryOfLog(i) ==
    IF logCall.parsed[i + 1] = "decoded"
    THEN LogEntry(logs, [k \in 1..Len(logs) |-> DecodedLog(Interface(logCall.abi), logs[k])], i)
    ELSE LogEntry(logs, <<>>, i)

\* C24: after the logs are decoded with an ABI that decodes only some of
\* them, there are as many entries as receipt logs and entry i is receipt
\* log i, decoded if it was decodable and raw otherwise.
C24_EntriesFollowReceipt ==
    DecodedSome =>
        /\ Len(TransactionLogs(logs, decodedLogs)) = Len(logs)
        /\ \A i \in 0..(Len(logs) - 1) :
              /\ i + 1 \in DOMAIN TransactionLogs(logs, decodedLogs)
              /\ TransactionLogs(logs, decodedLogs)[i + 1] = EntryOfLog(i)

-----------------------------------------------------------------------------
(* BlockList.tsx: the effect of lines 29-41 and fetchBlocks.  The timers   *)
(* of the browser are the set of interval ids not cleared; setInterval     *)
(* returns ids from 1 up.                                                  *)

\* the most intervals set in a behaviour
MaxTimers == 3

\* the most fetchBlocks calls pending at a time
MaxPending == 2

\* a cleanup that leaves its interval running
CleanupKeeping(ts, id) == ts

\* lines 38-40: if (interval) clearInterval(interval)
Cleanup(ts, id) == IF id # 0 THEN ts \ {id} ELSE ts

\* lines 14-18: fetchBlocks up to its await
FetchBlocks(b) == [b EXCEPT !.loading = TRUE, !.error = FALSE, !.pending = @ + 1]

\* a call of fetchBlocks by cause
Fetched(cause) == [cause |-> cause, turn |-> 1 - lastFetch.turn]

\* lines 30-36: the body of the effect for component state b
RunBlockListEffect(b) ==
    /\ lastFetch' = Fetched("effect")
    /\ IF b.autoRefresh
       THEN /\ timers' = Cleanup(timers, blockList.interval) \cup {nextTimer}
            /\ nextTimer' = nextTimer + 1
            /\ blockList' = [FetchBlocks(b) EXCEPT !.interval = nextTimer]
       ELSE /\ timers' = Cleanup(timers, blockList.interval)
            /\ UNCHANGED nextTimer
            /\ blockList' = [FetchBlocks(b) EXCEPT !.interval = 0]

\* renderContent shows the block list: lines 9-12, then the effect
MountBlockList ==
    /\ ~blockList.mounted
    /\ nextTimer <= MaxTimers
    /\ RunBlockListEffect([NoBlockList EXCEPT !.mounted = TRUE, !.autoRefresh = TRUE,
                                              !.loading = TRUE])
    /\ UNCHANGED <<toolVars, appVars, rpcVars>>

\* the Switch, line 52: the cleanup of the last effect, then the effect
SetAutoRefresh(checked) ==
    /\ blockList.mounted
    /\ checked # blockList.autoRefresh
    /\ nextTimer <= MaxTimers
    /\ blockList.pending < MaxPending
    /\ RunBlockListEffect([blockList EXCEPT !.autoRefresh = checked])
    /\ UNCHANGED <<toolVars, appVars, rpcVars>>

\* renderContent shows another page: the cleanup of the last effect
UnmountBlockList ==
    /\ blockList.mounted
    /\ timers' = Cleanup(timers, blockList.interval)
    /\ blockList' = NoBlockList
    /\ UNCHANGED <<nextTimer, lastFetch>>
    /\ UNCHANGED <<toolVars, appVars, rpcVars>>

\* interval id fires, line 35
Tick(id) ==
    /\ id \in timers
    /\ blockList.pending < MaxPending
    /\ blockList' = FetchBlocks(blockList)
    /\ lastFetch' = Fetched("timer")
    /\ UNCHANGED <<timers, nextTimer>>
    /\ UNCHANGED <<toolVars, appVars, rpcVars>>

\* the Refresh button, line 56
ClickRefresh ==
    /\ blockList.mounted
    /\ ~blockList.loading
    /\ blockList.pending < MaxPending
    /\ blockList' = FetchBlocks(blockList)
    /\ lastFetch' = Fetched("button")
    /\ UNCHANGED <<timers, nextTimer>>
    /\ UNCHANGED <<toolVars, appVars, rpcVars>>

\* getBlocks resolves, lines 19-20 and 25
ResolveGetBlocks ==
    /\ blockList.pending > 0
    /\ blockList' = [blockList EXCEPT !.pending = @ - 1, !.blocks = TRUE, !.loading = FALSE]
    /\ UNCHANGED <<timers, nextTimer, lastFetch>>
    /\ UNCHANGED <<toolVars, appVars, rpcVars>>

\* getBlocks rejects, lines 21-25
RejectGetBlocks ==
    /\ blockList.pending > 0
    /\ blockList' = [blockList EXCEPT !.pending = @ - 1, !.error = TRUE, !.loading = FALSE]
    /\ UNCHANGED <<timers, nextTimer, lastFetch>>
    /\ UNCHANGED <<toolVars, appVars, rpcVars>>

InitBlockListSpec ==
    /\ chain = <<Block(0, 1)>>
    /\ InitBtc
    /\ InitUnit
    /\ InitHex
    /\ InitApp
    /\ InitPage

NextBlockList ==
    \/ MountBlockList
    \/ \E checked \in BOOLEAN : SetAutoRefresh(checked)
    \/ UnmountBlockList
    \/ \E id \in 1..MaxTimers : Tick(id)
    \/ ClickRefresh
    \/ ResolveGetBlocks
    \/ RejectGetBlocks

SpecBlockList == InitBlockListSpec /\ [][NextBlockList]_vars

-----------------------------------------------------------------------------
(* Properties of the block list. *)

\* a timer exists exactly when the list is mounted with autoRefresh on, and
\* then one timer, the one the cleanup will clear
C21_OneTimerWhenOn ==
    /\ (timers # {}) <=> (blockList.mounted /\ blockList.autoRefresh)
    /\ Cardinality(timers) <= 1
    /\ timers # {} => timers = {blockList.interval}

\* a step that starts a timer-driven fetch is taken with the list mounted
\* and autoRefresh on, and a step that turns autoRefresh off or unmounts
\* leaves no timer
C21_TimerFetch ==
    /\ (lastFetch' # lastFetch /\ lastFetch'.cause = "timer") =>
          (blockList.mounted /\ blockList.autoRefresh)
    /\ (blockList.mounted /\ blockList.autoRefresh
          /\ ~(blockList'.mounted /\ blockList'.autoRefresh)) => timers' = {}

\* C21: in every reachable state of a BlockList a polling timer exists if
\* and only if the component is mounted and autoRefresh is on, and there is
\* never more than one timer; turning autoRefresh off or unmounting removes
\* the timer, so that no further timer-driven fetch starts.
C21_AutoRefreshTimer == [](C21_OneTimerWhenOn) /\ [][C21_TimerFetch]_vars

\* autoRefresh was turned off and on again: the second interval is the only
\* timer, and a fetch it started is pending
C21_Witness ==
    /\ blockList.mounted
    /\ blockList.autoRefresh
    /\ timers = {2}
    /\ lastFetch.cause = "timer"
    /\ blockList.pending > 0

-----------------------------------------------------------------------------
(* The RPC endpoint: updateRpcUrl of lib/blockchain.ts, handleSubmit of    *)
(* RpcUrlDialog.tsx and handleNetworkChange of NetworkPicker.tsx.  A URL   *)
(* is the sequence of its parts.  A handler runs up to its await in one    *)
(* step and its continuation, a microtask, runs before any other event.    *)

\* new URL(text) does not throw: text has a scheme, "://" and a host
ParsesAsUrl(text) ==
    /\ Len(text) >= 4
    /\ text[1] \in {"http", "https"}
    /\ text[2] = ":"
    /\ text[3] = "//"

\* RpcUrlDialog.tsx line 49
ConnectionFailed == "Invalid URL format or connection failed"

\* updateRpcUrl, blockchain.ts 11-16: rpcUrl and provider are assigned, then
\* localStorage.setItem stores the URL, or throws (stored is FALSE) when the
\* storage is full or refuses to write
UpdateRpcUrl(newRpcUrl, stored) ==
    /\ rpcUrl' = newRpcUrl
    /\ provider' = newRpcUrl
    /\ custom_rpc_url' = IF stored THEN newRpcUrl ELSE custom_rpc_url

\* what was in effect before a change
InEffect ==
    [provider |-> provider, custom_rpc_url |-> custom_rpc_url, contextRpcUrl |-> contextRpcUrl]

\* the record of a change requested by handler for url
RpcChange(handler, url, returned) ==
    [called |-> TRUE, handler |-> handler, url |-> url, returned |-> returned,
     before |-> InEffect]

\* the Change RPC button, and Cancel or Escape
SetOpen(open) ==
    /\ microtask = NoMicrotask
    /\ ~dialog.isSubmitting
    /\ open # dialog.open
    /\ dialog' = [dialog EXCEPT !.open = open]
    /\ UNCHANGED <<custom_rpc_url, rpcUrl, provider, contextRpcUrl, picker, microtask, rpcLog>>
    /\ UNCHANGED <<toolVars, appVars, blockListVars>>

\* onChange of the input, RpcUrlDialog.tsx line 76
SetNewRpcUrl(text) ==
    /\ microtask = NoMicrotask
    /\ dialog.open
    /\ dialog' = [dialog EXCEPT !.newRpcUrl = text]
    /\ UNCHANGED <<custom_rpc_url, rpcUrl, provider, contextRpcUrl, picker, microtask, rpcLog>>
    /\ UNCHANGED <<toolVars, appVars, blockListVars>>

\* handleSubmit, RpcUrlDialog.tsx 29-39 and, when new URL or updateRpcUrl
\* throws, 47-52
HandleSubmit(stored) ==
    /\ microtask = NoMicrotask
    /\ dialog.open
    /\ ~dialog.isSubmitting
    /\ IF ParsesAsUrl(dialog.newRpcUrl)
       THEN /\ UpdateRpcUrl(dialog.newRpcUrl, stored)
            /\ IF stored
               THEN /\ dialog' = [dialog EXCEPT !.isSubmitting = TRUE, !.error = Null]
                    /\ microtask' = [handler |-> "handleSubmit", url |-> dialog.newRpcUrl,
                                     networkId |-> ""]
                    /\ rpcLog' = RpcChange("handleSubmit", dialog.newRpcUrl, FALSE)
               ELSE /\ dialog' = [dialog EXCEPT !.isSubmitting = FALSE,
                                                !.error = ConnectionFailed]
                    /\ rpcLog' = RpcChange("handleSubmit", dialog.newRpcUrl, TRUE)
                    /\ UNCHANGED microtask
       ELSE /\ dialog' = [dialog EXCEPT !.isSubmitting = FALSE, !.error = ConnectionFailed]
            /\ rpcLog' = RpcChange("handleSubmit", dialog.newRpcUrl, TRUE)
            /\ UNCHANGED <<custom_rpc_url, rpcUrl, provider, microtask>>
    /\ UNCHANGED <<contextRpcUrl, picker>>
    /\ UNCHANGED <<toolVars, appVars, blockListVars>>

\* handleSubmit after its await, RpcUrlDialog.tsx 40-46 and 51, and the
\* effect of NetworkPicker on the new rpcUrl of the context
ContinueSubmit ==
    /\ microtask.handler = "handleSubmit"
    /\ contextRpcUrl' = microtask.url
    /\ picker' = SyncPicker(picker, microtask.url)
    /\ dialog' = [dialog EXCEPT !.open = FALSE, !.isSubmitting = FALSE]
    /\ microtask' = NoMicrotask
    /\ rpcLog' = [rpcLog EXCEPT !.returned = TRUE]
    /\ UNCHANGED <<custom_rpc_url, rpcUrl, provider>>
    /\ UNCHANGED <<toolVars, appVars, blockListVars>>

\* handleNetworkChange, NetworkPicker.tsx 36-44 and, when updateRpcUrl
\* throws, 49-53
HandleNetworkChange(networkId, stored) ==
    /\ microtask = NoMicrotask
    /\ ~(picker.isChanging \/ networkId = picker.selectedNetwork)
    /\ UpdateRpcUrl(FirstRpcUrl(networkId), stored)
    /\ rpcLog' = RpcChange("handleNetworkChange", FirstRpcUrl(networkId), ~stored)
    /\ IF stored
       THEN /\ picker' = [picker EXCEPT !.isChanging = TRUE]
            /\ microtask' = [handler |-> "handleNetworkChange",
                             url |-> FirstRpcUrl(networkId), networkId |-> networkId]
       ELSE /\ picker' = [picker EXCEPT !.isChanging = FALSE]
            /\ UNCHANGED microtask
    /\ UNCHANGED <<contextRpcUrl, dialog>>
    /\ UNCHANGED <<toolVars, appVars, blockListVars>>

\* handleNetworkChange after its await, NetworkPicker.tsx 45-47 and 52
ContinueNetworkChange ==
    /\ microtask.handler = "handleNetworkChange"
    /\ contextRpcUrl' = microtask.url
    /\ picker' = [picker EXCEPT !.selectedNetwork = microtask.networkId, !.isChanging = FALSE]
    /\ microtask' = NoMicrotask
    /\ rpcLog' = [rpcLog EXCEPT !.returned = TRUE]
    /\ UNCHANGED <<custom_rpc_url, rpcUrl, provider, dialog>>
    /\ UNCHANGED <<toolVars, appVars, blockListVars>>

\* the page is loaded again: every module and component starts over from
\* localStorage
Reload ==
    /\ microtask = NoMicrotask
    /\ rpcLog.called
    /\ rpcUrl' = StoredOrDefault(custom_rpc_url)
    /\ provider' = StoredOrDefault(custom_rpc_url)
    /\ contextRpcUrl' = StoredOrDefault(custom_rpc_url)
    /\ dialog' = ClosedDialog(StoredOrDefault(custom_rpc_url))
    /\ picker' = SyncPicker(IdlePicker, StoredOrDefault(custom_rpc_url))
    /\ rpcLog' = NoRpcChange
    /\ UNCHANGED <<custom_rpc_url, microtask>>
    /\ UNCHANGED <<toolVars, appVars, blockListVars>>

\* an endpoint that answers, one that cannot be connected to
UpUrl == <<"https", ":", "//", "rpc.up.example">>

DownUrl == <<"https", ":", "//", "rpc.down.example">>

\* the endpoint of url cannot be connected to
Unreachable(url) == url = DownUrl

\* the texts typed into the dialog: well-formed URLs, a host without a
\* scheme, nothing
RpcUrlInputs == {UpUrl, DownUrl, DefaultRpcUrl, <<"rpc.up.example">>, <<>>}

InitRpcSpec ==
    /\ chain = <<Block(0, 1)>>
    /\ InitBtc
    /\ InitUnit
    /\ InitHex
    /\ InitApp
    /\ InitBlockList
    /\ \E item \in {NoItem, UpUrl, FirstRpcUrl("bnb")} : LoadPage(item)

NextRpc ==
    \/ \E open \in BOOLEAN : SetOpen(open)
    \/ \E text \in RpcUrlInputs : SetNewRpcUrl(text)
    \/ \E stored \in BOOLEAN : HandleSubmit(stored)
    \/ ContinueSubmit
    \/ \E networkId \in NetworkIds, stored \in BOOLEAN : HandleNetworkChange(networkId, stored)
    \/ ContinueNetworkChange
    \/ Reload

SpecRpc == InitRpcSpec /\ [][NextRpc]_vars

-----------------------------------------------------------------------------
(* Properties of the RPC endpoint. *)

\* no handler is between its start and its return
NoChangeInProgress ==
    /\ ~dialog.isSubmitting
    /\ ~picker.isChanging
    /\ microtask = NoMicrotask

\* C22: whenever no RPC change is in progress, the URL the provider is
\* built from, the rpcUrl of NetworkContext and, once stored, the item
\* custom_rpc_url are equal, after any sequence of submissions of the
\* dialog and selections of the picker, successful or rejected.
C22_EndpointAgreement ==
    NoChangeInProgress =>
        /\ provider = contextRpcUrl
        /\ rpcUrl = provider
        /\ custom_rpc_url # NoItem => custom_rpc_url = provider

\* the last change was a submission of the dialog with a well-formed URL
\* whose endpoint cannot be connected to, and handleSubmit has returned
SubmittedUnreachable ==
    /\ rpcLog.called
    /\ rpcLog.handler = "handleSubmit"
    /\ rpcLog.returned
    /\ ParsesAsUrl(rpcLog.url)
    /\ Unreachable(rpcLog.url)

\* C25: a submission of a well-formed URL whose endpoint cannot be
\* connected to is rejected with 'Invalid URL format or connection failed';
\* the previous provider, custom_rpc_url and context rpcUrl stay in effect,
\* the dialog stays open and isSubmitting is false again.
C25_UnreachableRejected ==
    SubmittedUnreachable =>
        /\ dialog.error = ConnectionFailed
        /\ InEffect = rpcLog.before
        /\ dialog.open
        /\ ~dialog.isSubmitting

=============================================================================
